---------------------------- MODULE Spec2Model ----------------------------
(***************************************************************************)
(* Model of the harmony-tools subprocess-execution layer: the output       *)
(* truncator, the two process invokers (HdcRunner, HvigorRunner), the      *)
(* result normaliser and the call-instrumentation wrapper (_safe_tool).    *)
(*                                                                         *)
(* Texts are sequences of one-character strings.  A captured output is a   *)
(* Python value: None, a str or a bytes object; the record field `kind`    *)
(* keeps which one, because str and bytes behave differently in the code.  *)
(***************************************************************************)
EXTENDS Integers, Sequences, FiniteSets, TLC

VARIABLES
    hdc_executable,     \* _runner._executable
    hvigor_executable,  \* _hvigor_runner._executable
    last,               \* the last call made to the service and its outcome
    log,                \* the log records emitted by the last call
    crashed,            \* some earlier wrapped operation has raised
    tr,                 \* input and output of the truncator under test
    nz,                 \* a result and what as_dict made of it
    cl,                 \* a command and its command_line
    rs,                 \* a file system, a path and what the resolver returned
    job,                \* a device operation of tools.py and its steps so far
    environ,            \* os.environ of the service process
    fs,                 \* the file system the service runs on
    threads,            \* the run calls in progress, one per thread
    procs               \* the processes spawned so far

\* the functions checked on their own
units == <<tr, nz, cl, rs, job>>

\* the process environment, the file system and the calls in progress
world == <<environ, fs, threads, procs>>

vars == <<hdc_executable, hvigor_executable, last, log, crashed, units, world>>

---------------------------------------------------------------------------
(* Bounds *)

MaxLen == 4          \* longest text given to the truncator
MaxLines == 2        \* largest max_lines / max_output_lines
MaxOutLines == 3     \* most lines a spawned process writes on one stream
MaxNormLen == 4       \* longest raw output given to the result normaliser
MaxPartLen == 3       \* longest element of a command given to command_line
MaxParts == 1         \* most elements on each side of that element
MaxThreads == 2       \* run calls in progress at the same time

---------------------------------------------------------------------------
(* Python values *)

LF == "\n"
CR == "\r"
Alphabet == {"a", "b", LF, CR}

None == [kind |-> "None", chars |-> <<>>]
Str(s) == [kind |-> "str", chars |-> s]
Bytes(s) == [kind |-> "bytes", chars |-> s]

\* Python truthiness of None / str / bytes
Truthy(v) == v.kind # "None" /\ v.chars # <<>>

\* `a or b`
Or(a, b) == IF Truthy(a) THEN a ELSE b

\* An exception object: its class name and str(exc)
Exc(type, msg) == [type |-> type, msg |-> msg]
NoExc == Exc("None", <<>>)

\* The outcome of evaluating a function: the value it returns, or the
\* exception it raises
Returned(v) == [exc |-> NoExc, value |-> v]
Raised(e) == [exc |-> e, value |-> None]

SeqsUpTo(S, n) == UNION {[1..k -> S] : k \in 0..n}

Max(a, b) == IF a >= b THEN a ELSE b
Min(a, b) == IF a <= b THEN a ELSE b

\* seq[k:] with Python's treatment of a negative (or zero) start index
SliceFrom(s, k) ==
    LET start == IF k < 0 THEN Max(Len(s) + k, 0) ELSE Min(k, Len(s))
    IN SubSeq(s, start + 1, Len(s))

IsBreak(c) == c \in {LF, CR}

\* index of the first line break of s, or Len(s) + 1
RECURSIVE FirstBreak(_, _)
FirstBreak(s, i) ==
    IF i > Len(s) \/ IsBreak(s[i]) THEN i ELSE FirstBreak(s, i + 1)

\* str.splitlines() / bytes.splitlines(): "\n", "\r" and "\r\n" end a line,
\* and a final line break opens no further line
RECURSIVE splitlines(_)
splitlines(s) ==
    IF s = <<>> THEN <<>>
    ELSE LET j == FirstBreak(s, 1)
             next == IF j > Len(s) THEN j
                     ELSE IF s[j] = CR /\ j + 1 <= Len(s) /\ s[j + 1] = LF
                          THEN j + 2
                          ELSE j + 1
         IN <<SubSeq(s, 1, j - 1)>> \o splitlines(SubSeq(s, next, Len(s)))

\* sep.join(lines)
RECURSIVE join(_, _)
join(sep, lines) ==
    IF lines = <<>> THEN <<>>
    ELSE IF Len(lines) = 1 THEN lines[1]
    ELSE lines[1] \o sep \o join(sep, Tail(lines))

Digit(d) == CASE d = 0 -> "0" [] d = 1 -> "1" [] d = 2 -> "2" [] d = 3 -> "3"
              [] d = 4 -> "4" [] d = 5 -> "5" [] d = 6 -> "6" [] d = 7 -> "7"
              [] d = 8 -> "8" [] d = 9 -> "9"

\* str(n) for n >= 0, as the f-string formats it
RECURSIVE IntToStr(_)
IntToStr(n) ==
    IF n < 10 THEN <<Digit(n)>> ELSE IntToStr(n \div 10) \o <<Digit(n % 10)>>

\* f"[Output truncated: showing last {max_lines} of {total_lines} lines]"
truncation_notice(max_lines, total_lines) ==
    <<"[", "O", "u", "t", "p", "u", "t", " ", "t", "r", "u", "n", "c", "a",
      "t", "e", "d", ":", " ", "s", "h", "o", "w", "i", "n", "g", " ", "l",
      "a", "s", "t", " ">>
    \o IntToStr(max_lines)
    \o <<" ", "o", "f", " ">>
    \o IntToStr(total_lines)
    \o <<" ", "l", "i", "n", "e", "s", "]">>

---------------------------------------------------------------------------
(* String literals of the source, as sequences of characters *)

s_hdc ==
    <<"h", "d", "c">>
s_hvigorw ==
    <<".", "/", "h", "v", "i", "g", "o", "r", "w">>
s_sdk_hdc ==
    <<"/", "s", "d", "k", "/", "h", "d", "c">>
s_sdk_hvigorw ==
    <<"/", "s", "d", "k", "/", "h", "v", "i", "g", "o", "r", "w">>
s_t ==
    <<"-", "t">>
s_dev1 ==
    <<"d", "e", "v", "1">>
s_list ==
    <<"l", "i", "s", "t">>
s_targets ==
    <<"t", "a", "r", "g", "e", "t", "s">>
s_shell ==
    <<"s", "h", "e", "l", "l">>
s_ls ==
    <<"l", "s">>
s_clean ==
    <<"c", "l", "e", "a", "n">>
s_no_daemon ==
    <<"-", "-", "n", "o", "-", "d", "a", "e", "m", "o", "n">>
s_unable ==
    <<"U", "n", "a", "b", "l", "e", " ", "t", "o", " ", "e", "x", "e", "c",
      "u", "t", "e", " ", "'">>
s_ensure_hdc ==
    <<"'", ".", " ", "E", "n", "s", "u", "r", "e", " ", "h", "d", "c", " ",
      "i", "s", " ", "i", "n", "s", "t", "a", "l", "l", "e", "d", " ", "a",
      "n", "d", " ", "o", "n", " ", "P", "A", "T", "H", ".">>
s_ensure_hvigorw ==
    <<"'", ".", " ", "E", "n", "s", "u", "r", "e", " ", "h", "v", "i", "g",
      "o", "r", "w", " ", "e", "x", "i", "s", "t", "s", " ", "i", "n", " ",
      "t", "h", "e", " ", "p", "r", "o", "j", "e", "c", "t", " ", "o", "r",
      " ", "s", "e", "t", " ", "H", "V", "I", "G", "O", "R", "W", "_", "P",
      "A", "T", "H", " ", "t", "o", " ", "t", "h", "e", " ", "w", "r", "a",
      "p", "p", "e", "r", " ", "p", "a", "t", "h", ".">>
s_project_dir_required ==
    <<"p", "r", "o", "j", "e", "c", "t", "_", "d", "i", "r", " ", "i", "s",
      " ", "r", "e", "q", "u", "i", "r", "e", "d", " ", "f", "o", "r", " ",
      "h", "v", "i", "g", "o", "r", " ", "b", "u", "i", "l", "d", "s">>
s_project_dir_q ==
    <<"p", "r", "o", "j", "e", "c", "t", "_", "d", "i", "r", " ", "'">>
s_not_a_directory ==
    <<"'", " ", "d", "o", "e", "s", " ", "n", "o", "t", " ", "e", "x", "i",
      "s", "t", " ", "o", "r", " ", "i", "s", " ", "n", "o", "t", " ", "a",
      " ", "d", "i", "r", "e", "c", "t", "o", "r", "y">>
s_hdc_empty ==
    <<"h", "d", "c", " ", "c", "o", "m", "m", "a", "n", "d", " ", "c", "a",
      "n", "n", "o", "t", " ", "b", "e", " ", "e", "m", "p", "t", "y">>
s_timeout_hdc ==
    <<"t", "i", "m", "e", "o", "u", "t", " ", "w", "a", "i", "t", "i", "n",
      "g", " ", "f", "o", "r", " ", "h", "d", "c">>
s_timeout_hvigorw ==
    <<"t", "i", "m", "e", "o", "u", "t", " ", "w", "a", "i", "t", "i", "n",
      "g", " ", "f", "o", "r", " ", "h", "v", "i", "g", "o", "r", "w">>
s_join_bytes ==
    <<"s", "e", "q", "u", "e", "n", "c", "e", " ", "i", "t", "e", "m", " ",
      "0", ":", " ", "e", "x", "p", "e", "c", "t", "e", "d", " ", "s", "t",
      "r", " ", "i", "n", "s", "t", "a", "n", "c", "e", ",", " ", "b", "y",
      "t", "e", "s", " ", "f", "o", "u", "n", "d">>
s_pattern_bytes ==
    <<"c", "a", "n", "n", "o", "t", " ", "u", "s", "e", " ", "a", " ", "s",
      "t", "r", "i", "n", "g", " ", "p", "a", "t", "t", "e", "r", "n", " ",
      "o", "n", " ", "a", " ", "b", "y", "t", "e", "s", "-", "l", "i", "k",
      "e", " ", "o", "b", "j", "e", "c", "t">>
s_errno13 ==
    <<"[", "E", "r", "r", "n", "o", " ", "1", "3", "]", " ", "P", "e", "r",
      "m", "i", "s", "s", "i", "o", "n", " ", "d", "e", "n", "i", "e", "d",
      ":", " ", "'">>
s_bad_arg ==
    <<"b", "a", "d", " ", "a", "r", "g">>
s_boom ==
    <<"b", "o", "o", "m">>
s_log_file ==
    <<"/", "l", "o", "g", "/", "h", "a", "r", "m", "o", "n", "y", "-", "t",
      "o", "o", "l", "s", ".", "l", "o", "g">>
s_home ==
    <<"/", "h", "o", "m", "e">>
s_dir_proj ==
    <<"/", "p", "r", "o", "j">>
s_dir_tilde ==
    <<"~", "/", "a", "p", "p">>
s_dir_home_app ==
    <<"/", "h", "o", "m", "e", "/", "a", "p", "p">>
s_file ==
    <<"/", "f", "i", "l", "e">>
s_missing ==
    <<"/", "g", "o", "n", "e">>

---------------------------------------------------------------------------
(* Output truncator: HdcRunner._truncate_output, HvigorRunner._truncate_output *)

\* the truncator that also cuts a text of exactly max_lines lines
TruncateOutputStrict(output, max_lines) ==
    IF ~Truthy(output) THEN Returned(output)
    ELSE LET lines == splitlines(output.chars)
             total_lines == Len(lines)
         IN IF total_lines < max_lines THEN Returned(output)
            ELSE IF output.kind = "bytes"
                 THEN Raised(Exc("TypeError", s_join_bytes))
                 ELSE Returned(Str(truncation_notice(max_lines, total_lines)
                                   \o <<LF>>
                                   \o join(<<LF>>,
                                           SliceFrom(lines, -max_lines))))

_truncate_output(output, max_lines) ==
    IF ~Truthy(output) THEN Returned(output)
    ELSE LET lines == splitlines(output.chars)
             total_lines == Len(lines)
         IN IF total_lines <= max_lines THEN Returned(output)
            ELSE LET truncated_lines == SliceFrom(lines, -max_lines)
                 IN \* "\n".join(...) of bytes items raises TypeError
                    IF output.kind = "bytes"
                    THEN Raised(Exc("TypeError", s_join_bytes))
                    ELSE Returned(Str(truncation_notice(max_lines, total_lines)
                                      \o <<LF>>
                                      \o join(<<LF>>, truncated_lines)))

---------------------------------------------------------------------------
(* Result normaliser: HdcResult / HvigorResult *)

ESC == "ESC"         \* the one character "\x1b"

IsSpace(c) == c \in {" ", "\t", LF, CR, "\f"}

RECURSIVE lstrip(_)
lstrip(s) == IF s # <<>> /\ IsSpace(Head(s)) THEN lstrip(Tail(s)) ELSE s

RECURSIVE rstrip(_)
rstrip(s) ==
    IF s # <<>> /\ IsSpace(s[Len(s)]) THEN rstrip(SubSeq(s, 1, Len(s) - 1))
    ELSE s

\* str.strip()
strip(s) == rstrip(lstrip(s))

IsCodeChar(c) ==
    c \in {"0", "1", "2", "3", "4", "5", "6", "7", "8", "9", ";"}

\* end of the longest run of [0-9;] that starts at i
RECURSIVE CodeEnd(_, _)
CodeEnd(s, i) ==
    IF i <= Len(s) /\ IsCodeChar(s[i]) THEN CodeEnd(s, i + 1) ELSE i

\* re.compile(r'\x1b\[[0-9;]*m').sub('', text), scanning from index i
RECURSIVE StripAnsiFrom(_, _)
StripAnsiFrom(s, i) ==
    IF i > Len(s) THEN <<>>
    ELSE IF s[i] = ESC /\ i + 1 <= Len(s) /\ s[i + 1] = "["
              /\ CodeEnd(s, i + 2) <= Len(s) /\ s[CodeEnd(s, i + 2)] = "m"
         THEN StripAnsiFrom(s, CodeEnd(s, i + 2) + 1)
         ELSE <<s[i]>> \o StripAnsiFrom(s, i + 1)

\* _strip_ansi_codes on a str; a bytes argument makes re raise TypeError
_strip_ansi_codes(text) ==
    IF text.kind = "bytes" THEN Raised(Exc("TypeError", s_pattern_bytes))
    ELSE Returned(Str(StripAnsiFrom(text.chars, 1)))

WordChars ==
    {"a", "b", "c", "d", "e", "f", "g", "h", "i", "j", "k", "l", "m", "n",
     "o", "p", "q", "r", "s", "t", "u", "v", "w", "x", "y", "z",
     "A", "B", "C", "D", "E", "F", "G", "H", "I", "J", "K", "L", "M", "N",
     "O", "P", "Q", "R", "S", "T", "U", "V", "W", "X", "Y", "Z",
     "0", "1", "2", "3", "4", "5", "6", "7", "8", "9", "_"}

\* the characters shlex does not quote: [\w@%+=:,./-]
SafeChars == WordChars \cup {"@", "%", "+", "=", ":", ",", ".", "/", "-"}

\* s.replace("'", "'\"'\"'")
RECURSIVE EscapeQuotes(_)
EscapeQuotes(s) ==
    IF s = <<>> THEN <<>>
    ELSE (IF Head(s) = "'" THEN <<"'", "\"", "'", "\"", "'">> ELSE <<Head(s)>>)
         \o EscapeQuotes(Tail(s))

\* shlex.quote that wraps an unsafe string in single quotes as it is
QuoteNoEscape(s) ==
    IF s = <<>> THEN <<"'", "'">>
    ELSE IF \A i \in 1..Len(s) : s[i] \in SafeChars THEN s
    ELSE <<"'">> \o s \o <<"'">>

\* shlex.quote
quote(s) ==
    IF s = <<>> THEN <<"'", "'">>
    ELSE IF \A i \in 1..Len(s) : s[i] \in SafeChars THEN s
    ELSE <<"'">> \o EscapeQuotes(s) \o <<"'">>

\* " ".join(shlex.quote(part) for part in command)
command_line(command) ==
    join(<<" ">>, [i \in 1..Len(command) |-> quote(command[i])])

\* a Python dict, and a Python value that is no dict
PyDict(d) == [pytype |-> "dict", d |-> d]
NotADict == [pytype |-> "NoneType", d |-> <<>>]

\* as_dict with the escape sequences removed first and the whitespace last
HdcResultAsDictStripLast(r) ==
    LET so == _strip_ansi_codes(r.stdout)
        se == _strip_ansi_codes(r.stderr)
    IN IF so.exc # NoExc THEN Raised(so.exc)
       ELSE IF se.exc # NoExc THEN Raised(se.exc)
       ELSE Returned(PyDict(
                [command |-> r.command,
                 command_line |-> command_line(r.command),
                 stdout |-> strip(so.value.chars),
                 stderr |-> strip(se.value.chars),
                 returncode |-> r.returncode,
                 timed_out |-> r.timed_out]))

\* HdcResult.as_dict
HdcResult_as_dict(r) ==
    LET so == _strip_ansi_codes([r.stdout EXCEPT !.chars = strip(@)])
        se == _strip_ansi_codes([r.stderr EXCEPT !.chars = strip(@)])
    IN IF so.exc # NoExc THEN Raised(so.exc)
       ELSE IF se.exc # NoExc THEN Raised(se.exc)
       ELSE Returned(PyDict(
                [command |-> r.command,
                 command_line |-> command_line(r.command),
                 stdout |-> so.value.chars,
                 stderr |-> se.value.chars,
                 returncode |-> r.returncode,
                 timed_out |-> r.timed_out]))

\* HvigorResult.as_dict
HvigorResult_as_dict(r) ==
    LET so == _strip_ansi_codes([r.stdout EXCEPT !.chars = strip(@)])
        se == _strip_ansi_codes([r.stderr EXCEPT !.chars = strip(@)])
    IN IF so.exc # NoExc THEN Raised(so.exc)
       ELSE IF se.exc # NoExc THEN Raised(se.exc)
       ELSE Returned(PyDict(
                [command |-> r.command,
                 command_line |-> command_line(r.command),
                 cwd |-> r.cwd,
                 stdout |-> so.value.chars,
                 stderr |-> se.value.chars,
                 returncode |-> r.returncode,
                 timed_out |-> r.timed_out]))

---------------------------------------------------------------------------
(* The file system and the environment the service runs in *)

\* the directories that exist
Dirs == {s_dir_proj, s_dir_home_app}

\* os.path.isdir
isdir(path) == path \in Dirs

\* os.environ of the service process: HOME
EnvHome == s_home

RECURSIVE NameEnd(_, _)
NameEnd(s, i) ==
    IF i <= Len(s) /\ s[i] \in WordChars THEN NameEnd(s, i + 1) ELSE i

\* os.path.expandvars: $HOME is the one variable that is set; a reference
\* to an unset variable is left as it is
RECURSIVE expandvars(_)
expandvars(s) ==
    IF s = <<>> THEN <<>>
    ELSE IF Head(s) = "$"
         THEN LET e == NameEnd(s, 2)
                  name == SubSeq(s, 2, e - 1)
                  rest == expandvars(SubSeq(s, e, Len(s)))
              IN IF name = <<"H", "O", "M", "E">> THEN EnvHome \o rest
                 ELSE <<"$">> \o name \o rest
         ELSE <<Head(s)>> \o expandvars(Tail(s))

\* os.path.expanduser: "~" and "~/..." name the home directory; "~user" of
\* an unknown user is left as it is
expanduser(s) ==
    IF s # <<>> /\ Head(s) = "~" /\ (Len(s) = 1 \/ s[2] = "/")
    THEN EnvHome \o Tail(s)
    ELSE s

---------------------------------------------------------------------------
(* Process invokers.  `proc` is what subprocess.run does with the command: *)
(*   completed          the process exited; stdout, stderr are str         *)
(*   TimeoutExpired     the deadline passed; exc.stdout / exc.stderr are   *)
(*                      None, bytes (POSIX) or str (Windows)               *)
(*   FileNotFoundError  the executable was not found                       *)
(*   PermissionError    the executable cannot be executed                  *)
(* The outcome of a call is the exception it raises or the value it        *)
(* returns, the commands it handed to subprocess.run and the log records   *)
(* it emitted.                                                             *)

DefaultHdcMaxOutputLines == 500
DefaultHvigorMaxOutputLines == 100

\* names the resolvers and the file systems they run on are made of
s_bin == <<"b", "i", "n">>
s_hdc_exe == <<"h", "d", "c", ".", "e", "x", "e">>
s_hvigorw_name == <<"h", "v", "i", "g", "o", "r", "w">>
s_hvigorw_exe == <<"h", "v", "i", "g", "o", "r", "w", ".", "e", "x", "e">>
s_sdk == <<"/", "s", "d", "k">>
s_sdk_slash == <<"/", "s", "d", "k", "/">>
s_tilde_sdk == <<"~", "/", "s", "d", "k">>
s_var_sdk == <<"$", "H", "O", "M", "E", "/", "s", "d", "k">>
s_HDC_PATH == <<"H", "D", "C", "_", "P", "A", "T", "H">>
s_HVIGORW_PATH ==
    <<"H", "V", "I", "G", "O", "R", "W", "_", "P", "A", "T", "H">>

\* os.path.join(a, b) of posixpath
path_join(a, b) ==
    IF b # <<>> /\ Head(b) = "/" THEN b
    ELSE IF a = <<>> \/ a[Len(a)] = "/" THEN a \o b
    ELSE a \o <<"/">> \o b

\* a path without its trailing slashes
RECURSIVE StripSlashes(_)
StripSlashes(p) ==
    IF Len(p) > 1 /\ p[Len(p)] = "/" THEN StripSlashes(SubSeq(p, 1, Len(p) - 1))
    ELSE p

\* what stat finds at path p: a path with a trailing slash names a
\* directory or nothing
FileKind(files, p) ==
    IF StripSlashes(p) \in files.dirs THEN "dir"
    ELSE IF p \in files.files THEN "file"
    ELSE IF p \in files.others THEN "other"
    ELSE "absent"

os_path_exists(files, p) == FileKind(files, p) # "absent"
os_path_isfile(files, p) == FileKind(files, p) = "file"
os_path_isdir(files, p) == FileKind(files, p) = "dir"

\* the candidate list without the .exe names
HdcCandidatesNoExe(expanded_path) ==
    <<path_join(expanded_path, s_hdc),
      path_join(path_join(expanded_path, s_bin), s_hdc)>>

\* HdcRunner._resolve_executable: candidates
HdcCandidates(expanded_path) ==
    <<path_join(expanded_path, s_hdc),
      path_join(expanded_path, s_hdc_exe),
      path_join(path_join(expanded_path, s_bin), s_hdc),
      path_join(path_join(expanded_path, s_bin), s_hdc_exe)>>

\* HvigorRunner._resolve_executable: candidates
HvigorCandidates(expanded_path) ==
    <<path_join(expanded_path, s_hvigorw_name),
      path_join(path_join(expanded_path, s_bin), s_hvigorw_name)>>

\* the loop that takes the first candidate that exists, file or not
RECURSIVE FirstExisting(_, _, _, _)
FirstExisting(files, candidates, i, otherwise) ==
    IF i > Len(candidates) THEN otherwise
    ELSE IF os_path_exists(files, candidates[i]) THEN candidates[i]
    ELSE FirstExisting(files, candidates, i + 1, otherwise)

\* _resolve_executable: `for candidate in candidates`, from the i-th on
RECURSIVE FirstFile(_, _, _, _)
FirstFile(files, candidates, i, otherwise) ==
    IF i > Len(candidates) THEN otherwise
    ELSE IF os_path_isfile(files, candidates[i]) THEN candidates[i]
    ELSE FirstFile(files, candidates, i + 1, otherwise)

\* _resolve_executable once the path is expanded
ResolveExpanded(files, expanded_path, candidates) ==
    IF ~os_path_exists(files, expanded_path) THEN Returned(expanded_path)
    ELSE IF os_path_isfile(files, expanded_path) THEN Returned(expanded_path)
    ELSE IF os_path_isdir(files, expanded_path)
    THEN Returned(FirstFile(files, candidates, 1, expanded_path))
    ELSE Returned(expanded_path)

\* HdcRunner._resolve_executable
HdcResolveExpanded(files, expanded_path) ==
    ResolveExpanded(files, expanded_path, HdcCandidates(expanded_path))

HdcRunner_resolve_executable(files, path) ==
    HdcResolveExpanded(files, expanduser(expandvars(path)))

\* HvigorRunner._resolve_executable
HvigorResolveExpanded(files, expanded_path) ==
    ResolveExpanded(files, expanded_path, HvigorCandidates(expanded_path))

HvigorRunner_resolve_executable(files, path) ==
    HvigorResolveExpanded(files, expanduser(expandvars(path)))

\* os.getenv(key, default)
getenv(env, key, default) == IF key \in DOMAIN env THEN env[key] ELSE default

\* HdcRunner.__init__ with no executable argument
HdcRunner_init(env, files) ==
    HdcRunner_resolve_executable(files, getenv(env, s_HDC_PATH, s_hdc)).value

\* HvigorRunner.__init__ with no executable argument:
\* os.getenv("HVIGORW_PATH") or "./hvigorw"
HvigorRunner_init(env, files) ==
    HvigorRunner_resolve_executable(
        files,
        IF getenv(env, s_HVIGORW_PATH, <<>>) # <<>>
        THEN getenv(env, s_HVIGORW_PATH, <<>>)
        ELSE s_hvigorw).value

LogRec(level, event) == [level |-> level, event |-> event]

Outcome(exc, value, spawns, logs) ==
    [exc |-> exc, value |-> value, spawns |-> spawns, log |-> logs]

\* the exception subprocess.run raises for an executable it cannot execute
SpawnError(proc, executable) ==
    Exc(proc.kind, s_errno13 \o executable \o <<"'">>)

\* the command with the device flag put after the caller's arguments
HdcCommandFlagLast(executable, args, device) ==
    <<executable>>
    \o args
    \o (IF Truthy(device) THEN <<s_t, device.chars>> ELSE <<>>)

\* HdcRunner.run: the command handed to subprocess.run
HdcCommand(executable, args, device) ==
    <<executable>>
    \o (IF Truthy(device) THEN <<s_t, device.chars>> ELSE <<>>)
    \o args

\* the completion path run with check=True: a non-zero exit raises
HdcCompletedChecked(command, proc, max_output_lines) ==
    IF proc.returncode # 0
    THEN Outcome(Exc("CalledProcessError", <<>>), None, <<command>>,
                 <<LogRec("error", "hdc.exception")>>)
    ELSE Outcome(NoExc,
                 [command |-> command,
                  stdout |-> _truncate_output(proc.stdout,
                                              max_output_lines).value,
                  stderr |-> _truncate_output(proc.stderr,
                                              max_output_lines).value,
                  returncode |-> proc.returncode,
                  timed_out |-> FALSE],
                 <<command>>,
                 <<LogRec("debug", "hdc.completed")>>)

\* HdcRunner.run: the process exited
HdcCompleted(command, proc, max_output_lines) ==
    LET stdout == _truncate_output(proc.stdout, max_output_lines)
        stderr == _truncate_output(proc.stderr, max_output_lines)
    IN IF stdout.exc # NoExc \/ stderr.exc # NoExc
       THEN Outcome(IF stdout.exc # NoExc THEN stdout.exc ELSE stderr.exc,
                    None, <<command>>,
                    <<LogRec("error", "hdc.exception")>>)
       ELSE Outcome(NoExc,
                    [command |-> command,
                     stdout |-> stdout.value,
                     stderr |-> stderr.value,
                     returncode |-> proc.returncode,
                     timed_out |-> FALSE],
                    <<command>>,
                    <<LogRec("debug", "hdc.completed")>>
                    \o (IF proc.returncode # 0
                        THEN <<LogRec("warning", "hdc.failed")>>
                             \o (IF strip(stderr.value.chars) # <<>>
                                 THEN <<LogRec("warning", "hdc.stderr")>>
                                 ELSE <<>>)
                        ELSE <<>>))

\* the timeout handler that drops the partial output
HdcTimedOutDropsPartial(command, proc, max_output_lines) ==
    Outcome(NoExc,
            [command |-> command,
             stdout |-> Str(<<>>),
             stderr |-> _truncate_output(Str(s_timeout_hdc),
                                         max_output_lines).value,
             returncode |-> -1,
             timed_out |-> TRUE],
            <<command>>,
            <<LogRec("error", "hdc.timeout")>>)

\* HdcRunner.run: except subprocess.TimeoutExpired
HdcTimedOut(command, proc, max_output_lines) ==
    LET stdout == _truncate_output(Or(proc.stdout, Str(<<>>)),
                                   max_output_lines)
        stderr == _truncate_output(Or(proc.stderr, Str(s_timeout_hdc)),
                                   max_output_lines)
        logs == <<LogRec("error", "hdc.timeout")>>
    IN IF stdout.exc # NoExc
       THEN Outcome(stdout.exc, None, <<command>>, logs)
       ELSE IF stderr.exc # NoExc
       THEN Outcome(stderr.exc, None, <<command>>, logs)
       ELSE Outcome(NoExc,
                    [command |-> command,
                     stdout |-> stdout.value,
                     stderr |-> stderr.value,
                     returncode |-> -1,
                     timed_out |-> TRUE],
                    <<command>>, logs)

\* the not-found handler that names the command "hdc", not the resolved path
HdcNotFoundDefaultName(executable, command) ==
    Outcome(Exc("RuntimeError", s_unable \o s_hdc \o s_ensure_hdc),
            None, <<command>>,
            <<LogRec("error", "hdc.not_found")>>)

\* HdcRunner.run: except FileNotFoundError
HdcNotFound(executable, command) ==
    Outcome(Exc("RuntimeError", s_unable \o executable \o s_ensure_hdc),
            None, <<command>>,
            <<LogRec("error", "hdc.not_found")>>)

\* HdcRunner.run: except Exception
HdcUnexpected(executable, command, proc) ==
    Outcome(SpawnError(proc, executable), None, <<command>>,
            <<LogRec("error", "hdc.exception")>>)

\* HdcRunner.run
HdcRunner_run(executable, args, device, max_output_lines, proc) ==
    LET command == HdcCommand(executable, args, device)
        out == CASE proc.kind = "completed" ->
                      HdcCompleted(command, proc, max_output_lines)
                 [] proc.kind = "TimeoutExpired" ->
                      HdcTimedOut(command, proc, max_output_lines)
                 [] proc.kind = "FileNotFoundError" ->
                      HdcNotFound(executable, command)
                 [] OTHER ->
                      HdcUnexpected(executable, command, proc)
    IN [out EXCEPT !.log = <<LogRec("debug", "hdc.run")>> \o @]

\* the check of project_dir without the test that it is a directory
HvigorProjectDirErrorEmptyOnly(project_dir) ==
    IF project_dir = <<>>
    THEN Exc("ValueError", s_project_dir_required)
    ELSE NoExc

\* HvigorRunner.run: the check of project_dir
HvigorProjectDirError(project_dir) ==
    IF project_dir = <<>>
    THEN Exc("ValueError", s_project_dir_required)
    ELSE IF ~isdir(expanduser(expandvars(project_dir)))
    THEN Exc("ValueError",
             s_project_dir_q \o project_dir \o s_not_a_directory)
    ELSE NoExc

\* HvigorRunner.run: the process exited
HvigorCompleted(command, cwd, proc, max_output_lines) ==
    LET stdout == _truncate_output(proc.stdout, max_output_lines)
        stderr == _truncate_output(proc.stderr, max_output_lines)
    IN IF stdout.exc # NoExc
       THEN Outcome(stdout.exc, None, <<command>>, <<>>)
       ELSE IF stderr.exc # NoExc
       THEN Outcome(stderr.exc, None, <<command>>, <<>>)
       ELSE Outcome(NoExc,
                    [command |-> command,
                     cwd |-> cwd,
                     stdout |-> stdout.value,
                     stderr |-> stderr.value,
                     returncode |-> proc.returncode,
                     timed_out |-> FALSE],
                    <<command>>, <<>>)

\* HvigorRunner.run: except subprocess.TimeoutExpired
HvigorTimedOut(command, cwd, proc, max_output_lines) ==
    LET stdout == _truncate_output(Or(proc.stdout, Str(<<>>)),
                                   max_output_lines)
        stderr == _truncate_output(Or(proc.stderr, Str(s_timeout_hvigorw)),
                                   max_output_lines)
    IN IF stdout.exc # NoExc
       THEN Outcome(stdout.exc, None, <<command>>, <<>>)
       ELSE IF stderr.exc # NoExc
       THEN Outcome(stderr.exc, None, <<command>>, <<>>)
       ELSE Outcome(NoExc,
                    [command |-> command,
                     cwd |-> cwd,
                     stdout |-> stdout.value,
                     stderr |-> stderr.value,
                     returncode |-> -1,
                     timed_out |-> TRUE],
                    <<command>>, <<>>)

\* HvigorRunner.run: except FileNotFoundError
HvigorNotFound(executable, command) ==
    Outcome(Exc("RuntimeError", s_unable \o executable \o s_ensure_hvigorw),
            None, <<command>>, <<>>)

\* HvigorRunner.run
HvigorRunner_run(executable, args, project_dir, max_output_lines, proc) ==
    LET resolved_project_dir == expanduser(expandvars(project_dir))
        command == <<executable>> \o args
        invalid == HvigorProjectDirError(project_dir)
    IN IF invalid # NoExc
       THEN Outcome(invalid, None, <<>>, <<>>)
       ELSE CASE proc.kind = "completed" ->
                   HvigorCompleted(command, resolved_project_dir, proc,
                                   max_output_lines)
              [] proc.kind = "TimeoutExpired" ->
                   HvigorTimedOut(command, resolved_project_dir, proc,
                                  max_output_lines)
              [] proc.kind = "FileNotFoundError" ->
                   HvigorNotFound(executable, command)
              [] OTHER ->
                   Outcome(SpawnError(proc, executable), None, <<command>>,
                           <<>>)

\* execute_hdc / execute_hvigor: `.as_dict()` of what run returned; `d` is
\* the outcome of as_dict
ResultAsDict(result, d) ==
    IF result.exc # NoExc THEN result
    ELSE Outcome(d.exc, d.value, result.spawns, result.log)

\* service_bootstrap.execute_hdc: _runner.run(...).as_dict()
HdcRunAsDict(result) == ResultAsDict(result, HdcResult_as_dict(result.value))

\* service_bootstrap.execute_hdc
execute_hdc(executable, args, device, proc) ==
    IF args = <<>>
    THEN Outcome(Exc("InvalidArgumentsError", s_hdc_empty), None, <<>>, <<>>)
    ELSE HdcRunAsDict(HdcRunner_run(executable, args, device,
                                    DefaultHdcMaxOutputLines, proc))

\* service_bootstrap.execute_hvigor: _hvigor_runner.run(...).as_dict()
HvigorRunAsDict(result) ==
    ResultAsDict(result, HvigorResult_as_dict(result.value))

\* service_bootstrap.execute_hvigor
execute_hvigor(executable, args, project_dir, proc) ==
    HvigorRunAsDict(HvigorRunner_run(executable, args, project_dir,
                                     DefaultHvigorMaxOutputLines, proc))

---------------------------------------------------------------------------
(* Call-instrumentation wrapper.  `kwargs` are the named arguments of the  *)
(* call and `body` is the outcome of the call of the operation.                *)

LogData(level, event, data) ==
    [level |-> level, event |-> event, data |-> data]

Repeat(x, n) == [i \in 1..n |-> x]

\* _format_params: the items it renders, the call context left out
_format_params(kwargs) == [k \in DOMAIN kwargs \ {"ctx"} |-> kwargs[k]]

\* traceback.format_exc() for the exception being handled
format_exc(exc) == <<"Traceback (most recent call last):", exc.type, exc.msg>>

\* _format_tool_exception with the message of the failure left out
FormatToolExceptionNoMessage(tool_name, exc) ==
    PyDict([success |-> FALSE,
            error |-> <<>>,
            error_type |-> exc.type,
            tool |-> tool_name,
            log_file |-> s_log_file,
            traceback |-> format_exc(exc)])

\* _format_tool_exception
_format_tool_exception(tool_name, exc) ==
    PyDict([success |-> FALSE,
            error |-> exc.msg,
            error_type |-> exc.type,
            tool |-> tool_name,
            log_file |-> s_log_file,
            traceback |-> format_exc(exc)])

\* the classification with the returncode key looked at first
ClassifyReturncodeFirst(result) ==
    IF result.pytype = "dict" /\ "returncode" \in DOMAIN result.d
    THEN result.d.returncode = 0
    ELSE IF result.pytype = "dict" /\ "success" \in DOMAIN result.d
    THEN result.d.success
    ELSE TRUE

\* wrapped: the classification of a normally returned result
Classify(result) ==
    IF result.pytype = "dict" /\ "success" \in DOMAIN result.d
    THEN result.d.success
    ELSE IF result.pytype = "dict" /\ "returncode" \in DOMAIN result.d
    THEN result.d.returncode = 0
    ELSE TRUE

\* wrapped: the records logged before the operation is called
WrappedEntryLog(log_kwargs) ==
    <<LogRec("info", "call.separator"), LogRec("info", "call.received")>>
    \o (IF DOMAIN log_kwargs # {}
        THEN <<LogRec("info", "call.params")>>
             \o Repeat(LogRec("info", "call.param"),
                       Cardinality(DOMAIN log_kwargs))
        ELSE <<LogRec("info", "call.no_params")>>)
    \o <<LogRec("info", "call.start")>>

WrappedErrorLog(log_kwargs, exc) ==
    <<LogRec("error", "call.separator"),
      LogRec("error", "call.exception"),
      LogRec("error", "call.duration"),
      LogData("error", "call.params", log_kwargs),
      LogData("error", "call.traceback", exc),
      LogRec("error", "call.separator")>>

\* the handler that logs a ValueError and lets every other failure go on
WrappedRaisedOnlyValueError(name, log_kwargs, body) ==
    IF body.exc.type = "ValueError"
    THEN Outcome(NoExc, _format_tool_exception(name, body.exc), body.spawns,
                 WrappedErrorLog(log_kwargs, body.exc))
    ELSE Outcome(body.exc, None, body.spawns, <<>>)

\* wrapped: except Exception
WrappedRaised(name, log_kwargs, body) ==
    Outcome(NoExc, _format_tool_exception(name, body.exc), body.spawns,
            WrappedErrorLog(log_kwargs, body.exc))

\* wrapped: the operation returned
WrappedReturned(name, log_kwargs, body) ==
    LET result == body.value
        success == Classify(result)
    IN Outcome(NoExc, result, body.spawns,
               (IF success
                THEN <<LogRec("info", "call.succeeded")>>
                ELSE <<LogRec("warning", "call.failed"),
                       LogData("warning", "call.failed_params",
                               _format_params(log_kwargs))>>
                     \o (IF result.pytype = "dict"
                            /\ "error" \in DOMAIN result.d
                         THEN <<LogData("warning", "call.error",
                                        result.d.error)>>
                         ELSE <<>>))
               \o <<LogRec("info", "call.separator")>>)

\* _safe_tool.register.wrapped
wrapped(name, kwargs, body) ==
    LET log_kwargs == [k \in DOMAIN kwargs \ {"ctx"} |-> kwargs[k]]
        out == IF body.exc # NoExc
               THEN WrappedRaised(name, log_kwargs, body)
               ELSE WrappedReturned(name, log_kwargs, body)
    IN [out EXCEPT !.log = WrappedEntryLog(log_kwargs) \o body.log \o @]

\* tools.list_targets
list_targets(executable, proc) ==
    execute_hdc(executable, <<s_list, s_targets>>, None, proc)

\* tools.hvigor_clean
hvigor_clean(executable, project_dir, no_daemon, proc) ==
    execute_hvigor(executable,
                   <<s_clean>> \o (IF no_daemon THEN <<s_no_daemon>> ELSE <<>>),
                   project_dir, proc)

---------------------------------------------------------------------------
(* Inputs of the calls and behaviours of the spawned process *)

\* n lines "1", "2", ..., each ended by a line break
OutLines(n) == join(<<>>, [i \in 1..n |-> <<Digit(i), LF>>])

Completions ==
    {[kind |-> "completed", returncode |-> rc,
      stdout |-> Str(OutLines(o)), stderr |-> Str(OutLines(e))] :
        rc \in {0, 3, -1}, o \in 0..MaxOutLines, e \in 0..MaxOutLines}

\* what TimeoutExpired carries: on POSIX the bytes read so far, or None when
\* nothing was read; on Windows the decoded text
PartialPosix == {None} \cup {Bytes(OutLines(n)) : n \in 1..MaxOutLines}
PartialWindows == {Str(OutLines(n)) : n \in 0..MaxOutLines}

Timeouts ==
    {[kind |-> "TimeoutExpired", returncode |-> 0, stdout |-> o, stderr |-> e] :
        o \in PartialPosix, e \in PartialPosix}
    \cup
    {[kind |-> "TimeoutExpired", returncode |-> 0, stdout |-> o, stderr |-> e] :
        o \in PartialWindows, e \in PartialWindows}

SpawnFailures ==
    {[kind |-> k, returncode |-> 0, stdout |-> None, stderr |-> None] :
        k \in {"FileNotFoundError", "PermissionError"}}

NoProc == [kind |-> "none", returncode |-> 0, stdout |-> None, stderr |-> None]

\* subprocess.run(..., timeout=timeout): no deadline passes without a timeout
ProcOutcomes(timeout) ==
    Completions \cup SpawnFailures
    \cup (IF timeout = "None" THEN {} ELSE Timeouts)

TimeoutValues == {"None", "120.0"}
ArgLists == {<<>>, <<s_shell, s_ls>>}
Devices == {None, Str(<<>>), Str(s_dev1)}
ProjectDirs == {<<>>, s_dir_proj, s_dir_tilde, s_file, s_missing}

\* what a registered operation can do: raise, or return a dict or another
\* value
BodyExceptions ==
    {Exc("ValueError", s_bad_arg), Exc("RuntimeError", s_boom),
     Exc("InvalidArgumentsError", s_hdc_empty),
     Exc("TypeError", s_pattern_bytes)}

BodyDicts ==
    {[success |-> s] : s \in BOOLEAN}
    \cup {[success |-> s, returncode |-> rc] : s \in BOOLEAN, rc \in {0, 3}}
    \cup {[success |-> s, error |-> s_boom] : s \in BOOLEAN}
    \cup {[returncode |-> rc] : rc \in {0, 3, -1}}
    \cup {[returncode |-> rc, error |-> s_boom] : rc \in {0, 3}}
    \cup {[error |-> s_boom]}
    \cup {[stdout |-> <<>>]}

BodyOutcomes ==
    {Outcome(e, None, <<>>, <<>>) : e \in BodyExceptions}
    \cup {Outcome(NoExc, PyDict(d), <<>>, <<>>) : d \in BodyDicts}
    \cup {Outcome(NoExc, NotADict, <<>>, <<>>)}

GenericKwargs ==
    {[k \in {} |-> <<>>], [ctx |-> <<"c", "t", "x">>],
     [ctx |-> <<"c", "t", "x">>, command |-> s_ls]}

---------------------------------------------------------------------------
(* The service: after construction the two invokers hold their resolved    *)
(* executables; the service takes one call at a time and answers it.      *)

NoCall == [op |-> "none"]

Call(op, inputs, proc, out) ==
    [op |-> op, inputs |-> inputs,
     proc |-> IF out.spawns = <<>> THEN NoProc ELSE proc,
     exc |-> out.exc, value |-> out.value, spawns |-> out.spawns]

NoTrunc ==
    [output |-> None, max_lines |-> 0, done |-> TRUE, result |-> Returned(None)]

\* no result is being normalised, no command line built, no path resolved
NoNorm == [done |-> TRUE]
NoCmd == [done |-> TRUE]
NoResolve == [done |-> TRUE]

\* an empty environment and an empty file system
NoEnviron == [k \in {} |-> <<>>]
NoFiles == [files |-> {}, dirs |-> {}, others |-> {}]

\* no device operation is under way
NoJob == [pc |-> "none"]

Init ==
    /\ \E c \in {<<s_hdc, s_hvigorw>>, <<s_sdk_hdc, s_sdk_hvigorw>>} :
          /\ hdc_executable = c[1]
          /\ hvigor_executable = c[2]
    /\ last = NoCall
    /\ log = <<>>
    /\ crashed = FALSE
    /\ tr = NoTrunc
    /\ nz = NoNorm
    /\ cl = NoCmd
    /\ rs = NoResolve
    /\ environ = NoEnviron
    /\ fs = NoFiles
    /\ threads = <<>>
    /\ procs = {}
    /\ job = NoJob

\* no call is being handled
Idle == last = NoCall

Finish(call, out) ==
    /\ last' = call
    /\ log' = out.log
    /\ UNCHANGED <<hdc_executable, hvigor_executable, units, world>>

\* _runner.run(args, device=..., timeout=..., max_output_lines=...)
HdcRun ==
    /\ Idle
    /\ \E args \in ArgLists, device \in Devices, timeout \in TimeoutValues,
          m \in 0..MaxLines :
         \E proc \in ProcOutcomes(timeout) :
           LET out == HdcRunner_run(hdc_executable, args, device, m, proc)
           IN /\ Finish(Call("HdcRunner.run",
                             [args |-> args, device |-> device,
                              timeout |-> timeout, max_output_lines |-> m],
                             proc, out), out)
              /\ UNCHANGED crashed

\* _hvigor_runner.run(args, project_dir=..., timeout=..., max_output_lines=...)
HvigorRun ==
    /\ Idle
    /\ \E args \in ArgLists, project_dir \in ProjectDirs,
          timeout \in TimeoutValues, m \in 0..MaxLines :
         \E proc \in ProcOutcomes(timeout) :
           LET out == HvigorRunner_run(hvigor_executable, args, project_dir, m,
                                       proc)
           IN /\ Finish(Call("HvigorRunner.run",
                             [args |-> args, project_dir |-> project_dir,
                              timeout |-> timeout, max_output_lines |-> m],
                             proc, out), out)
              /\ UNCHANGED crashed

\* execute_hdc(args, device=..., timeout=...)
ExecuteHdc ==
    /\ Idle
    /\ \E args \in ArgLists, device \in Devices, timeout \in TimeoutValues :
         \E proc \in ProcOutcomes(timeout) :
           LET out == execute_hdc(hdc_executable, args, device, proc)
           IN /\ Finish(Call("execute_hdc",
                             [args |-> args, device |-> device,
                              timeout |-> timeout],
                             proc, out), out)
              /\ UNCHANGED crashed

\* execute_hvigor(args, project_dir=..., timeout=...)
ExecuteHvigor ==
    /\ Idle
    /\ \E args \in ArgLists, project_dir \in ProjectDirs,
          timeout \in TimeoutValues :
         \E proc \in ProcOutcomes(timeout) :
           LET out == execute_hvigor(hvigor_executable, args, project_dir, proc)
           IN /\ Finish(Call("execute_hvigor",
                             [args |-> args, project_dir |-> project_dir,
                              timeout |-> timeout],
                             proc, out), out)
              /\ UNCHANGED crashed

\* a call of a registered operation through the wrapper
ToolCall(op, kwargs, proc, body) ==
    LET out == wrapped(op, kwargs, body)
    IN /\ Finish([op |-> op, inputs |-> [kwargs |-> kwargs],
                  proc |-> IF out.spawns = <<>> THEN NoProc ELSE proc,
                  exc |-> out.exc, value |-> out.value, spawns |-> out.spawns,
                  body |-> [exc |-> body.exc, value |-> body.value],
                  after_crash |-> crashed],
                 out)
       /\ crashed' = (crashed \/ body.exc # NoExc)

\* the client calls list_targets
CallListTargets ==
    /\ Idle
    /\ \E proc \in ProcOutcomes("15.0") :
         ToolCall("list_targets", [ctx |-> <<"c", "t", "x">>], proc,
                  list_targets(hdc_executable, proc))

\* the client calls hvigor_clean
CallHvigorClean ==
    /\ Idle
    /\ \E project_dir \in ProjectDirs, no_daemon \in BOOLEAN,
          timeout \in TimeoutValues \ {"None"} :
         \E proc \in ProcOutcomes(timeout) :
           ToolCall("hvigor_clean",
                    [ctx |-> <<"c", "t", "x">>, project_dir |-> project_dir,
                     no_daemon |-> no_daemon, timeout |-> timeout],
                    proc,
                    hvigor_clean(hvigor_executable, project_dir, no_daemon, proc))

\* the client calls some other registered operation, which raises or returns
CallOperation ==
    /\ Idle
    /\ \E kwargs \in GenericKwargs, body \in BodyOutcomes :
         ToolCall("operation", kwargs, NoProc, body)

\* the outcome of the call has gone back to the caller
Respond ==
    /\ last # NoCall
    /\ last' = NoCall
    /\ log' = <<>>
    /\ UNCHANGED <<hdc_executable, hvigor_executable, crashed, units, world>>

Next ==
    \/ Respond
    \/ HdcRun
    \/ HvigorRun
    \/ ExecuteHdc
    \/ ExecuteHvigor
    \/ CallListTargets
    \/ CallHvigorClean
    \/ CallOperation

Spec == Init /\ [][Next]_vars

---------------------------------------------------------------------------
(* Specification of the truncator alone: every text up to MaxLen and every *)
(* bound up to MaxLines is given to it.                                    *)

TruncInit ==
    /\ hdc_executable = s_hdc
    /\ hvigor_executable = s_hvigorw
    /\ last = NoCall
    /\ log = <<>>
    /\ crashed = FALSE
    /\ \E s \in SeqsUpTo(Alphabet, MaxLen), k \in {"str", "bytes"},
          m \in 0..MaxLines :
          tr = [output |-> [kind |-> k, chars |-> s], max_lines |-> m,
                done |-> FALSE, result |-> Returned(None)]
    /\ nz = NoNorm
    /\ cl = NoCmd
    /\ rs = NoResolve
    /\ environ = NoEnviron
    /\ fs = NoFiles
    /\ threads = <<>>
    /\ procs = {}
    /\ job = NoJob

Truncate ==
    /\ ~tr.done
    /\ tr' = [tr EXCEPT !.done = TRUE,
                        !.result = _truncate_output(tr.output, tr.max_lines)]
    /\ UNCHANGED <<hdc_executable, hvigor_executable, last, log, crashed,
                   nz, cl, rs, job, world>>

TruncNext == Truncate

SpecTruncate == TruncInit /\ [][TruncNext]_vars

---------------------------------------------------------------------------
(* Specification of the resolvers alone: each is given every path of       *)
(* ResolvePaths on every file system in which that path is absent, a file, *)
(* something else, or a directory with any mix of absent, file and         *)
(* directory entries under the names a resolver could look for.            *)

ResolvePaths == {s_sdk, s_sdk_slash, s_tilde_sdk, s_var_sdk, s_hdc}

\* the entries a directory can have, as path components, by tool
EntryNames(tool) ==
    IF tool = "hdc"
    THEN {<<s_hdc>>, <<s_hdc_exe>>, <<s_bin, s_hdc>>, <<s_bin, s_hdc_exe>>}
    ELSE {<<s_hvigorw_name>>, <<s_hvigorw_exe>>, <<s_bin, s_hvigorw_name>>,
          <<s_bin, s_hvigorw_exe>>}

\* the path of an entry of directory base
Under(base, parts) ==
    IF Len(parts) = 1 THEN base \o <<"/">> \o parts[1]
    ELSE base \o <<"/">> \o parts[1] \o <<"/">> \o parts[2]

\* the file system in which base is of kind k and, when it is a directory,
\* its entries are of the kinds given
FilesOf(base, k, kinds) ==
    [files |-> (IF k = "file" THEN {base} ELSE {})
               \cup {Under(base, n) : n \in {m \in DOMAIN kinds :
                                                 kinds[m] = "file"}},
     dirs |-> (IF k = "dir" THEN {base} ELSE {})
              \cup {Under(base, n) : n \in {m \in DOMAIN kinds :
                                                kinds[m] = "dir"}}
              \cup (IF \E m \in DOMAIN kinds :
                          Len(m) = 2 /\ kinds[m] # "absent"
                    THEN {Under(base, <<s_bin>>)} ELSE {}),
     others |-> IF k = "other" THEN {base} ELSE {}]

ResolveInit ==
    /\ hdc_executable = s_hdc
    /\ hvigor_executable = s_hvigorw
    /\ last = NoCall
    /\ log = <<>>
    /\ crashed = FALSE
    /\ tr = NoTrunc
    /\ nz = NoNorm
    /\ cl = NoCmd
    /\ environ = NoEnviron
    /\ fs = NoFiles
    /\ threads = <<>>
    /\ procs = {}
    /\ job = NoJob
    /\ \E tool \in {"hdc", "hvigor"}, path \in ResolvePaths,
          k \in {"absent", "file", "dir", "other"} :
         \E kinds \in IF k = "dir"
                      THEN [EntryNames(tool) -> {"absent", "file", "dir"}]
                      ELSE [EntryNames(tool) -> {"absent"}] :
           LET base == StripSlashes(expanduser(expandvars(path)))
           IN rs = [tool |-> tool, path |-> path, base |-> base,
                    kind |-> k, kinds |-> kinds,
                    files |-> FilesOf(base, k, kinds),
                    done |-> FALSE, result |-> Returned(<<>>)]

\* HdcRunner._resolve_executable(path) / HvigorRunner._resolve_executable(path)
Resolve ==
    /\ ~rs.done
    /\ rs' = [rs EXCEPT
                !.done = TRUE,
                !.result =
                    IF rs.tool = "hdc"
                    THEN HdcRunner_resolve_executable(rs.files, rs.path)
                    ELSE HvigorRunner_resolve_executable(rs.files, rs.path)]
    /\ UNCHANGED <<hdc_executable, hvigor_executable, last, log, crashed,
                   tr, nz, cl, job, world>>

ResolveNext == Resolve

SpecResolve == ResolveInit /\ [][ResolveNext]_vars

---------------------------------------------------------------------------
(* Specification of the result normaliser alone: as_dict is applied to     *)
(* results of both invokers whose stdout is every text up to MaxNormLen    *)
(* over the characters of an escape sequence, a blank and a letter.        *)

NormAlphabet == {ESC, "[", "3", ";", "m", " ", "a"}

\* the fields of the result other than stdout
NormOthers ==
    {[stderr |-> Str(<<>>), returncode |-> 0, timed_out |-> FALSE],
     [stderr |-> Str(<<" ", ESC, "[", "3", "m", " ", "e", ESC, "[", "m", LF>>),
      returncode |-> 3, timed_out |-> FALSE],
     [stderr |-> Str(s_timeout_hdc), returncode |-> -1, timed_out |-> TRUE]}

\* HdcResult(...) / HvigorResult(...)
NormResult(tool, stdout, o) ==
    IF tool = "hdc"
    THEN [command |-> <<s_sdk_hdc, s_shell, s_ls>>, stdout |-> stdout,
          stderr |-> o.stderr, returncode |-> o.returncode,
          timed_out |-> o.timed_out]
    ELSE [command |-> <<s_sdk_hvigorw, s_clean>>, cwd |-> s_dir_proj,
          stdout |-> stdout, stderr |-> o.stderr,
          returncode |-> o.returncode, timed_out |-> o.timed_out]

NormInit ==
    /\ hdc_executable = s_hdc
    /\ hvigor_executable = s_hvigorw
    /\ last = NoCall
    /\ log = <<>>
    /\ crashed = FALSE
    /\ tr = NoTrunc
    /\ cl = NoCmd
    /\ rs = NoResolve
    /\ environ = NoEnviron
    /\ fs = NoFiles
    /\ threads = <<>>
    /\ procs = {}
    /\ job = NoJob
    /\ \E tool \in {"hdc", "hvigor"}, s \in SeqsUpTo(NormAlphabet, MaxNormLen),
          k \in {"str", "bytes"}, o \in NormOthers :
          nz = [tool |-> tool,
                given |-> NormResult(tool, [kind |-> k, chars |-> s], o),
                result |-> NormResult(tool, [kind |-> k, chars |-> s], o),
                done |-> FALSE, out |-> Returned(NotADict)]

\* result.as_dict(): it reads the fields of the result and assigns none
AsDict ==
    /\ ~nz.done
    /\ nz' = [nz EXCEPT !.done = TRUE,
                        !.out = IF nz.tool = "hdc"
                                THEN HdcResult_as_dict(nz.result)
                                ELSE HvigorResult_as_dict(nz.result)]
    /\ UNCHANGED <<hdc_executable, hvigor_executable, last, log, crashed,
                   tr, cl, rs, job, world>>

NormNext == AsDict

SpecNormalise == NormInit /\ [][NormNext]_vars

---------------------------------------------------------------------------
(* Specification of command_line alone: it is applied to commands made of  *)
(* one element that is any text up to MaxPartLen over a letter, a blank,   *)
(* the two quotes and the backslash, with up to MaxParts elements of       *)
(* PartsAround before it and after it, and to the empty command.           *)

PartAlphabet == {"a", " ", "'", "\"", "\\"}

PartsAround == {<<>>, <<"a", " ", "b">>, <<"$", LF, ";">>}

CommandsToQuote ==
    {<<>>} \cup
    {before \o <<part>> \o after :
        part \in SeqsUpTo(PartAlphabet, MaxPartLen),
        before \in SeqsUpTo(PartsAround, MaxParts),
        after \in SeqsUpTo(PartsAround, MaxParts)}

CommandLineInit ==
    /\ hdc_executable = s_hdc
    /\ hvigor_executable = s_hvigorw
    /\ last = NoCall
    /\ log = <<>>
    /\ crashed = FALSE
    /\ tr = NoTrunc
    /\ nz = NoNorm
    /\ rs = NoResolve
    /\ environ = NoEnviron
    /\ fs = NoFiles
    /\ threads = <<>>
    /\ procs = {}
    /\ job = NoJob
    /\ \E command \in CommandsToQuote :
          cl = [command |-> command, done |-> FALSE, command_line |-> <<>>]

\* result.command_line
CommandLine ==
    /\ ~cl.done
    /\ cl' = [cl EXCEPT !.done = TRUE,
                        !.command_line = command_line(cl.command)]
    /\ UNCHANGED <<hdc_executable, hvigor_executable, last, log, crashed,
                   tr, nz, rs, job, world>>

CommandLineNext == CommandLine

SpecCommandLine == CommandLineInit /\ [][CommandLineNext]_vars

---------------------------------------------------------------------------
(* Specification of concurrent calls.  The two invokers are constructed    *)
(* from the environment and the file system of the moment; then up to      *)
(* MaxThreads threads each make one run call, step by step (the command is *)
(* built, the environment copied and merged, the process spawned, the      *)
(* process exits or is killed at the deadline, run returns), while the     *)
(* environment variables of the service process and the file system are    *)
(* changed.                                                                *)

s_LANG == <<"L", "A", "N", "G">>
s_C == <<"C">>
s_zh == <<"z", "h">>
s_other == <<"/", "o", "t", "h", "e", "r">>

\* os.environ when the invokers are constructed
StartEnviron ==
    (s_HDC_PATH :> s_sdk) @@ (s_HVIGORW_PATH :> s_sdk) @@ (s_LANG :> s_C)

\* os.environ as it can be changed later
Environs ==
    {StartEnviron, (s_HDC_PATH :> s_other) @@ (s_LANG :> s_zh)}

\* the file system when the invokers are constructed: an SDK directory
\* holding hdc and bin/hvigorw
StartFiles ==
    [files |-> {Under(s_sdk, <<s_hdc>>), Under(s_sdk, <<s_bin, s_hvigorw_name>>)},
     dirs |-> {s_sdk, Under(s_sdk, <<s_bin>>)}, others |-> {}]

\* the file system as it can be changed later
FileSystems ==
    {StartFiles,
     [files |-> {Under(s_sdk, <<s_hdc_exe>>), Under(s_sdk, <<s_hvigorw_name>>)},
      dirs |-> {s_sdk, Under(s_sdk, <<s_bin>>)}, others |-> {}]}

\* the run calls the threads make: tool, args, device or project_dir, and
\* env overrides
Requests ==
    {[tool |-> "hdc", args |-> <<s_shell, s_ls>>, device |-> Str(s_dev1),
      project_dir |-> <<>>, env |-> NoEnviron],
     [tool |-> "hvigor", args |-> <<s_clean>>, device |-> None,
      project_dir |-> s_dir_proj,
      env |-> (s_HVIGORW_PATH :> s_other) @@ (s_LANG :> s_C)],
     [tool |-> "hvigor", args |-> <<s_clean>>, device |-> None,
      project_dir |-> s_missing, env |-> NoEnviron]}

\* run: the checks made before anything is spawned
Validation(request) ==
    IF request.tool = "hdc" THEN NoExc
    ELSE HvigorProjectDirError(request.project_dir)

\* a thread that has made no call yet
IdleThread ==
    [pc |-> "idle", request |-> [tool |-> "none"], command |-> <<>>,
     inherited |-> NoEnviron, final_env |-> NoEnviron,
     result |-> Returned(None)]

\* run that merges the overrides into os.environ itself
MergeEnvironmentInPlace(os_environ, env) ==
    [final_env |-> env @@ os_environ, os_environ |-> env @@ os_environ]

\* run: final_env = os.environ.copy(); if env: final_env.update(env)
MergeEnvironment(os_environ, env) ==
    [final_env |-> env @@ os_environ, os_environ |-> os_environ]

\* run that goes back to spawning when the deadline has passed
AfterTimeoutRetry == "merged"

\* run: `except subprocess.TimeoutExpired` builds the result and returns
AfterTimeout == "ended"

\* the process thread t has spawned and that has not ended yet
Running(t) == {p \in procs : p.owner = t /\ p.state = "running"}

\* what subprocess.run reports of a process that has ended
Reported(state) ==
    CASE state = "exited" ->
           [kind |-> "completed", returncode |-> 0,
            stdout |-> Str(OutLines(1)), stderr |-> Str(<<>>)]
      [] state = "killed" ->
           [kind |-> "TimeoutExpired", returncode |-> 0,
            stdout |-> None, stderr |-> None]
      [] OTHER ->
           [kind |-> "FileNotFoundError", returncode |-> 0,
            stdout |-> None, stderr |-> None]

\* what run returns or raises for a request whose process ended in `state`
RunOutcome(request, executable, state) ==
    IF request.tool = "hdc"
    THEN HdcRunner_run(executable, request.args, request.device,
                       DefaultHdcMaxOutputLines, Reported(state))
    ELSE HvigorRunner_run(executable, request.args, request.project_dir,
                          DefaultHvigorMaxOutputLines, Reported(state))

ConcurrentInit ==
    /\ last = NoCall
    /\ log = <<>>
    /\ crashed = FALSE
    /\ tr = NoTrunc
    /\ nz = NoNorm
    /\ cl = NoCmd
    /\ rs = NoResolve
    /\ environ = StartEnviron
    /\ fs = StartFiles
    /\ hdc_executable = HdcRunner_init(environ, fs)
    /\ hvigor_executable = HvigorRunner_init(environ, fs)
    /\ threads = [t \in 1..MaxThreads |-> IdleThread]
    /\ procs = {}
    /\ job = NoJob

\* what the steps of a run call leave alone
RunFrame ==
    UNCHANGED <<hdc_executable, hvigor_executable, last, log, crashed, units,
                fs>>

\* run raises for a project_dir that is no directory, and spawns nothing
Rejected ==
    \E t \in 1..MaxThreads, request \in Requests :
        /\ threads[t].pc = "idle"
        /\ Validation(request) # NoExc
        /\ threads' = [threads EXCEPT ![t] =
              [@ EXCEPT !.pc = "done",
                        !.request = request,
                        !.result = [exc |-> Validation(request),
                                    value |-> None]]]
        /\ UNCHANGED <<environ, procs>>
        /\ RunFrame

\* run: command = [self._executable] (+ ["-t", device]) + list(args)
BuildCommand ==
    \E t \in 1..MaxThreads, request \in Requests :
        /\ threads[t].pc = "idle"
        /\ Validation(request) = NoExc
        /\ threads' = [threads EXCEPT ![t] =
              [@ EXCEPT !.pc = "built",
                        !.request = request,
                        !.command =
                            IF request.tool = "hdc"
                            THEN HdcCommand(hdc_executable, request.args,
                                            request.device)
                            ELSE <<hvigor_executable>> \o request.args]]
        /\ UNCHANGED <<environ, procs>>
        /\ RunFrame

\* run: final_env = os.environ.copy(); if env: final_env.update(env)
CopyEnviron ==
    \E t \in 1..MaxThreads :
        /\ threads[t].pc = "built"
        /\ threads' = [threads EXCEPT ![t] =
              [@ EXCEPT !.pc = "merged",
                        !.inherited = environ,
                        !.final_env =
                            MergeEnvironment(environ,
                                             threads[t].request.env).final_env]]
        /\ environ' = MergeEnvironment(environ,
                                       threads[t].request.env).os_environ
        /\ UNCHANGED procs
        /\ RunFrame

\* run: subprocess.run(command, env=final_env, timeout=...) starts the
\* process, or the operating system does not find the executable
Spawn ==
    \E t \in 1..MaxThreads, started \in BOOLEAN :
        /\ threads[t].pc = "merged"
        /\ procs' = procs \cup
              {[owner |-> t,
                attempt |-> Cardinality({p \in procs : p.owner = t}) + 1,
                command |-> threads[t].command,
                env |-> threads[t].final_env,
                state |-> IF started THEN "running" ELSE "failed"]}
        /\ threads' = [threads EXCEPT ![t].pc =
                          IF started THEN "waiting" ELSE "ended"]
        /\ UNCHANGED environ
        /\ RunFrame

\* the spawned process exits; subprocess.run stops waiting
ProcessExits ==
    \E t \in 1..MaxThreads :
        /\ threads[t].pc = "waiting"
        /\ \E p \in Running(t) :
              procs' = (procs \ {p}) \cup {[p EXCEPT !.state = "exited"]}
        /\ threads' = [threads EXCEPT ![t].pc = "ended"]
        /\ UNCHANGED environ
        /\ RunFrame

\* the deadline passes; subprocess.run kills the process and raises
\* TimeoutExpired
Deadline ==
    \E t \in 1..MaxThreads :
        /\ threads[t].pc = "waiting"
        /\ \E p \in Running(t) :
              procs' = (procs \ {p}) \cup {[p EXCEPT !.state = "killed"]}
        /\ threads' = [threads EXCEPT ![t].pc = AfterTimeout]
        /\ UNCHANGED environ
        /\ RunFrame

\* run returns its result or raises
Return ==
    \E t \in 1..MaxThreads :
        /\ threads[t].pc = "ended"
        /\ \E p \in {q \in procs : q.owner = t /\ q.state # "running"} :
              LET out == RunOutcome(threads[t].request,
                                    threads[t].command[1], p.state)
              IN threads' = [threads EXCEPT ![t] =
                    [@ EXCEPT !.pc = "done",
                              !.result = [exc |-> out.exc,
                                          value |-> out.value]]]
        /\ UNCHANGED <<environ, procs>>
        /\ RunFrame

\* the file system changes: the SDK is reinstalled with other file names
ChangeFiles ==
    /\ fs' \in FileSystems \ {fs}
    /\ UNCHANGED <<hdc_executable, hvigor_executable, last, log, crashed,
                   units, environ, threads, procs>>

\* some other part of the service process changes the environment variables
ChangeEnviron ==
    /\ environ' \in Environs \ {environ}
    /\ UNCHANGED <<hdc_executable, hvigor_executable, last, log, crashed,
                   units, fs, threads, procs>>

ConcurrentNext ==
    \/ Rejected
    \/ BuildCommand
    \/ CopyEnviron
    \/ Spawn
    \/ ProcessExits
    \/ Deadline
    \/ Return
    \/ ChangeEnviron
    \/ ChangeFiles

SpecConcurrent == ConcurrentInit /\ [][ConcurrentNext]_vars

---------------------------------------------------------------------------
(* Specification of tools.hdc_install_app.  One call is followed step by    *)
(* step: the HAP file check, then the device commands handed to            *)
(* execute_hdc one after the other, each with any outcome of its process   *)
(* (exit code 0 or 3, killed at the deadline, executable not found), then  *)
(* the return of the payload, from the body or from the exception handler. *)

s_aa == <<"a", "a">>
s_force_stop == <<"f", "o", "r", "c", "e", "-", "s", "t", "o", "p">>
s_mkdir == <<"m", "k", "d", "i", "r">>
s_file_arg == <<"f", "i", "l", "e">>
s_send == <<"s", "e", "n", "d">>
s_bm == <<"b", "m">>
s_install == <<"i", "n", "s", "t", "a", "l", "l">>
s_p == <<"-", "p">>
s_rm == <<"r", "m">>
s_rf == <<"-", "r", "f">>
s_start == <<"s", "t", "a", "r", "t">>
s_a == <<"-", "a">>
s_b == <<"-", "b">>
s_EntryAbility == <<"E", "n", "t", "r", "y">>
s_hap_missing == <<"H", "A", "P", " ", "?", ":", " ">>
s_hap == <<"/", "a", ".", "h", "a", "p">>
s_bundle == <<"c", "o", "m", ".", "x">>

\* f"/data/local/tmp/{uuid.uuid4().hex}": a directory name of the call's own
TempDirs == {<<"/", "t", "m", "p", "/", "1">>, <<"/", "t", "m", "p", "/", "2">>}

\* the file systems of the service host: the HAP is a file, is missing, or
\* is a directory
HapFileSystems ==
    {[files |-> {s_hap}, dirs |-> {}, others |-> {}],
     NoFiles,
     [files |-> {}, dirs |-> {s_hap}, others |-> {}]}

BundleNames == {None, Str(<<>>), Str(s_bundle)}

\* what the process of one device command does
StepProcs ==
    {[kind |-> "completed", returncode |-> rc,
      stdout |-> Str(OutLines(1)), stderr |-> Str(<<>>)] : rc \in {0, 3}}
    \cup {[kind |-> "TimeoutExpired", returncode |-> 0,
           stdout |-> None, stderr |-> None]}
    \cup {[kind |-> "FileNotFoundError", returncode |-> 0,
           stdout |-> None, stderr |-> None]}

\* the arguments of the device commands of hdc_install_app
StopArgs(bundle_name) == <<s_shell, s_aa, s_force_stop, bundle_name.chars>>
MkdirArgs(temp_dir) == <<s_shell, s_mkdir, temp_dir>>
TransferArgs(hap_path, temp_dir) == <<s_file_arg, s_send, hap_path, temp_dir>>
InstallArgs(temp_dir) == <<s_shell, s_bm, s_install, s_p, temp_dir>>
CleanupArgs(temp_dir) == <<s_shell, s_rm, s_rf, temp_dir>>
StartArgs(ability_name, bundle_name) ==
    <<s_shell, s_aa, s_start, s_a, ability_name, s_b, bundle_name.chars>>

\* success when every recorded step returned 0
EveryStepSucceeded(steps) ==
    \A k \in DOMAIN steps : steps[k].d.returncode = 0

\* hdc_install_app: steps.get("install", {}).get("returncode", -1) == 0
InstallSuccess(steps) ==
    IF "install" \in DOMAIN steps
    THEN steps["install"].d.returncode = 0
    ELSE FALSE

\* hdc_install_app: the payload returned when hap_path is not a file
HapMissingPayload(j) ==
    [success |-> FALSE,
     error |-> s_hap_missing \o j.hap_path,
     hap_path |-> j.hap_path,
     bundle_name |-> j.bundle_name,
     temp_dir |-> j.temp_dir,
     steps |-> j.steps]

\* hdc_install_app: the payload returned at the end of the try block
InstallPayload(j) ==
    [success |-> InstallSuccess(j.steps),
     hap_path |-> j.hap_path,
     bundle_name |-> j.bundle_name,
     temp_dir |-> j.temp_dir,
     steps |-> j.steps]

\* hdc_install_app: the payload returned by `except Exception`
InstallFailedPayload(j) ==
    [success |-> FALSE,
     hap_path |-> j.hap_path,
     bundle_name |-> j.bundle_name,
     temp_dir |-> j.temp_dir,
     error |-> j.raised.msg,
     error_type |-> j.raised.type,
     steps |-> j.steps]

\* the step that follows the HAP check, and the one that follows cleanup
AfterCheck(j) ==
    IF j.force_stop /\ Truthy(j.bundle_name) THEN "stop" ELSE "create_dir"
AfterCleanup(j) ==
    IF j.auto_start /\ Truthy(j.bundle_name) THEN "start" ELSE "return"

\* one device command of the try block: execute_hdc(args, ...) returned
\* `out`, which is stored under steps[key], or raised it
AfterStep(j, key, next, args, out) ==
    IF out.exc = NoExc
    THEN [j EXCEPT !.pc = next,
                   !.issued = Append(@, args),
                   !.steps = (key :> out.value) @@ @]
    ELSE [j EXCEPT !.pc = "except",
                   !.issued = Append(@, args),
                   !.raised = out.exc]

\* what the steps of the operation leave alone
JobFrame ==
    UNCHANGED <<hdc_executable, hvigor_executable, last, log, crashed,
                tr, nz, cl, rs, world>>

InstallInit ==
    /\ hdc_executable = s_hdc
    /\ hvigor_executable = s_hvigorw
    /\ last = NoCall
    /\ log = <<>>
    /\ crashed = FALSE
    /\ tr = NoTrunc
    /\ nz = NoNorm
    /\ cl = NoCmd
    /\ rs = NoResolve
    /\ environ = NoEnviron
    /\ fs \in HapFileSystems
    /\ threads = <<>>
    /\ procs = {}
    /\ job = NoJob

\* hdc_install_app(hap_path, bundle_name, ability_name, auto_start,
\* force_stop, ...): the temp_dir is made up and hap_path is checked
InstallCall ==
    /\ job = NoJob
    /\ \E bundle_name \in BundleNames, auto_start \in BOOLEAN,
          force_stop \in BOOLEAN, temp_dir \in TempDirs :
          LET j == [pc |-> "check", name |-> "hdc_install_app",
                    hap_path |-> s_hap, bundle_name |-> bundle_name,
                    ability_name |-> s_EntryAbility,
                    auto_start |-> auto_start, force_stop |-> force_stop,
                    temp_dir |-> temp_dir, issued |-> <<>>,
                    steps |-> [k \in {} |-> NotADict], raised |-> NoExc,
                    result |-> [success |-> FALSE]]
          IN job' = IF os_path_isfile(fs, s_hap)
                    THEN [j EXCEPT !.pc = AfterCheck(j)]
                    ELSE [j EXCEPT !.pc = "done",
                                   !.result = HapMissingPayload(j)]
    /\ JobFrame

\* step 1/6: shell aa force-stop <bundle_name>
StopStep ==
    /\ job.pc = "stop"
    /\ \E proc \in StepProcs :
          job' = AfterStep(job, "stop", "create_dir", StopArgs(job.bundle_name),
                           execute_hdc(hdc_executable,
                                       StopArgs(job.bundle_name), None, proc))
    /\ JobFrame

\* step 2/6: shell mkdir <temp_dir>
MkdirStep ==
    /\ job.pc = "create_dir"
    /\ \E proc \in StepProcs :
          job' = AfterStep(job, "create_dir", "transfer",
                           MkdirArgs(job.temp_dir),
                           execute_hdc(hdc_executable, MkdirArgs(job.temp_dir),
                                       None, proc))
    /\ JobFrame

\* step 3/6: file send <hap_path> <temp_dir>
TransferStep ==
    /\ job.pc = "transfer"
    /\ \E proc \in StepProcs :
          job' = AfterStep(job, "transfer", "install",
                           TransferArgs(job.hap_path, job.temp_dir),
                           execute_hdc(hdc_executable,
                                       TransferArgs(job.hap_path, job.temp_dir),
                                       None, proc))
    /\ JobFrame

\* step 4/6: shell bm install -p <temp_dir>
InstallStep ==
    /\ job.pc = "install"
    /\ \E proc \in StepProcs :
          job' = AfterStep(job, "install", "cleanup",
                           InstallArgs(job.temp_dir),
                           execute_hdc(hdc_executable,
                                       InstallArgs(job.temp_dir), None, proc))
    /\ JobFrame

\* step 5/6: shell rm -rf <temp_dir>
CleanupStep ==
    /\ job.pc = "cleanup"
    /\ \E proc \in StepProcs :
          job' = AfterStep(job, "cleanup", AfterCleanup(job),
                           CleanupArgs(job.temp_dir),
                           execute_hdc(hdc_executable,
                                       CleanupArgs(job.temp_dir), None, proc))
    /\ JobFrame

\* step 6/6: shell aa start -a <ability_name> -b <bundle_name>
StartStep ==
    /\ job.pc = "start"
    /\ \E proc \in StepProcs :
          job' = AfterStep(job, "start", "return",
                           StartArgs(job.ability_name, job.bundle_name),
                           execute_hdc(hdc_executable,
                                       StartArgs(job.ability_name,
                                                 job.bundle_name),
                                       None, proc))
    /\ JobFrame

\* the end of the try block: the payload is returned
InstallReturn ==
    /\ job.pc = "return"
    /\ job' = [job EXCEPT !.pc = "done", !.result = InstallPayload(job)]
    /\ JobFrame

\* the handler that returns the failure payload without any cleanup
InstallExceptNoCleanup ==
    /\ job.pc = "except"
    /\ job' = [job EXCEPT !.pc = "done", !.result = InstallFailedPayload(job)]
    /\ JobFrame

\* `except Exception`: shell rm -rf <temp_dir> is tried, whatever it returns
\* or raises is dropped, and the failure payload is returned
InstallExcept ==
    /\ job.pc = "except"
    /\ \E proc \in StepProcs :
          job' = [job EXCEPT !.pc = "done",
                             !.issued = Append(@, CleanupArgs(job.temp_dir)),
                             !.result = InstallFailedPayload(job)]
    /\ JobFrame

InstallNext ==
    \/ InstallCall
    \/ StopStep
    \/ MkdirStep
    \/ TransferStep
    \/ InstallStep
    \/ CleanupStep
    \/ StartStep
    \/ InstallReturn
    \/ InstallExcept

SpecInstall == InstallInit /\ [][InstallNext]_vars

---------------------------------------------------------------------------
(* Specification of tools.hdc_screenshot.  One call is followed step by    *)
(* step: the checks of the project and output directories, the snapshot on *)
(* the device, the transfer, the removal of the device file, and the       *)
(* return of the payload, from the body or from the exception handler.     *)
(* Each device command has any outcome of its process: exit code 0 with a  *)
(* plain output or with an output that carries a failure marker, exit code *)
(* 3, killed at the deadline, executable not found.  The size of the local *)
(* file, which the payload also reports, is left out.                      *)

s_snapshot_display ==
    <<"s", "n", "a", "p", "s", "h", "o", "t", "_", "d", "i", "s", "p", "l",
      "a", "y">>
s_f == <<"-", "f">>
s_recv == <<"r", "e", "c", "v">>
s_error_colon == <<"e", "r", "r", "o", "r", ":">>
s_fail_marker == <<"[", "f", "a", "i", "l", "]">>
s_error_word == <<"e", "r", "r", "o", "r">>
s_snapshot_failed == <<"s", "n", "a", "p", "?">>
s_transfer_failed == <<"r", "e", "c", "v", "?">>
s_no_project == <<"d", "i", "r", "?", " ">>
s_no_output_dir == <<"m", "k", "d", "i", "r", "?", " ">>
s_shots == <<"s", "h", "o", "t", "s">>
s_local_name == <<"a", ".", "j", "p", "e", "g">>

\* f"/data/local/tmp/screenshot_{uuid.uuid4().hex}.jpeg"
DeviceTempPaths ==
    {<<"/", "t", "/", "1", ".", "j", "p", "e", "g">>,
     <<"/", "t", "/", "2", ".", "j", "p", "e", "g">>}

\* the file systems of the service host: no project directory, the project
\* directory alone, the project directory with the output directory
ProjectFileSystems ==
    {NoFiles,
     [files |-> {}, dirs |-> {s_dir_proj}, others |-> {}],
     [files |-> {}, dirs |-> {s_dir_proj, path_join(s_dir_proj, s_shots)},
      others |-> {}]}

OutputPaths == {None, Str(s_shots)}

\* what the device commands print when they exit
ShotOutputs ==
    {OutLines(1),
     <<"E", "r", "r", "o", "r", ":", " ", "x", LF>>,
     <<"[", "F", "a", "i", "l", "]", "x", LF>>,
     <<"n", "o", " ", "e", "r", "r", "o", "r", LF>>}

\* what the process of one device command does
ShotProcs ==
    {[kind |-> "completed", returncode |-> 0,
      stdout |-> Str(o), stderr |-> Str(<<>>)] : o \in ShotOutputs}
    \cup {[kind |-> "completed", returncode |-> 3,
           stdout |-> Str(OutLines(1)), stderr |-> Str(<<>>)]}
    \cup {[kind |-> "TimeoutExpired", returncode |-> 0,
           stdout |-> None, stderr |-> None]}
    \cup {[kind |-> "FileNotFoundError", returncode |-> 0,
           stdout |-> None, stderr |-> None]}

UpperCase ==
    <<"A", "B", "C", "D", "E", "F", "G", "H", "I", "J", "K", "L", "M", "N",
      "O", "P", "Q", "R", "S", "T", "U", "V", "W", "X", "Y", "Z">>
LowerCase ==
    <<"a", "b", "c", "d", "e", "f", "g", "h", "i", "j", "k", "l", "m", "n",
      "o", "p", "q", "r", "s", "t", "u", "v", "w", "x", "y", "z">>

\* str.lower()
lower(s) ==
    [i \in 1..Len(s) |->
        IF \E k \in 1..26 : UpperCase[k] = s[i]
        THEN LowerCase[CHOOSE k \in 1..26 : UpperCase[k] = s[i]]
        ELSE s[i]]

\* `sub in text`
str_in(sub, text) ==
    \E i \in 0..(Len(text) - Len(sub)) :
        SubSeq(text, i + 1, i + Len(sub)) = sub

\* the arguments of the device commands of hdc_screenshot
SnapshotArgs(device_temp_path) ==
    <<s_shell, s_snapshot_display, s_f, device_temp_path>>
RecvArgs(device_temp_path, local_path) ==
    <<s_file_arg, s_recv, device_temp_path, local_path>>
RemoveArgs(device_temp_path) == <<s_shell, s_rm, device_temp_path>>

\* hdc_screenshot: the snapshot step is taken as failed
SnapshotFailed(d) ==
    \/ d.returncode # 0
    \/ str_in(s_error_colon, lower(d.stdout))

\* the transfer taken as failed on its returncode alone
RecvFailedByReturncode(d) == d.returncode # 0

\* hdc_screenshot: the transfer step is taken as failed
RecvFailed(d) ==
    \/ d.returncode # 0
    \/ str_in(s_fail_marker, lower(d.stdout))
    \/ str_in(s_error_word, lower(d.stdout))

\* hdc_screenshot: the directory the file is saved in
LocalDir(project_dir, output_path) ==
    IF Truthy(output_path) THEN path_join(project_dir, output_path.chars)
    ELSE project_dir

\* hdc_screenshot: the payloads it returns
NoProjectPayload(j) ==
    [success |-> FALSE, error |-> s_no_project \o j.project_dir]
NoOutputDirPayload(j) ==
    [success |-> FALSE, error |-> s_no_output_dir \o s_errno13]
SnapshotFailedPayload(j, snapshot_result) ==
    [success |-> FALSE, error |-> s_snapshot_failed,
     snapshot_result |-> snapshot_result]
RecvFailedPayload(j) ==
    [success |-> FALSE, error |-> s_transfer_failed,
     recv_result |-> j.recv_result]
ScreenshotPayload(j) ==
    [success |-> TRUE,
     local_path |-> j.local_path,
     filename |-> s_local_name,
     device_temp_path |-> j.device_temp_path,
     snapshot_result |-> j.snapshot_result,
     recv_result |-> j.recv_result,
     cleanup_result |-> j.cleanup_result]
ScreenshotFailedPayload(j) ==
    [success |-> FALSE,
     error |-> j.raised.msg,
     error_type |-> j.raised.type,
     device_temp_path |-> j.device_temp_path]

\* a device command of the try block raised `out.exc`
ShotRaised(j, args, out) ==
    [j EXCEPT !.pc = "except", !.issued = Append(@, args),
              !.raised = out.exc]

\* step 1/3 after execute_hdc(args, ...) has returned or raised `out`
AfterSnapshot(j, args, out) ==
    IF out.exc # NoExc THEN ShotRaised(j, args, out)
    ELSE IF SnapshotFailed(out.value.d)
    THEN [j EXCEPT !.pc = "done", !.issued = Append(@, args),
                   !.snapshot_result = out.value,
                   !.result = SnapshotFailedPayload(j, out.value)]
    ELSE [j EXCEPT !.pc = "recv", !.issued = Append(@, args),
                   !.snapshot_result = out.value]

\* step 2/3 after execute_hdc(args, ...) has returned or raised `out`
AfterRecv(j, args, out) ==
    IF out.exc # NoExc THEN ShotRaised(j, args, out)
    ELSE [j EXCEPT !.pc = IF RecvFailed(out.value.d) THEN "recv_failed"
                          ELSE "remove",
                   !.issued = Append(@, args),
                   !.recv_result = out.value]

\* the removal made after a failed transfer, after execute_hdc(args, ...)
\* has returned or raised `out`
AfterFailedRecvRemove(j, args, out) ==
    IF out.exc # NoExc THEN ShotRaised(j, args, out)
    ELSE [j EXCEPT !.pc = "done", !.issued = Append(@, args),
                   !.result = RecvFailedPayload(j)]

\* step 3/3 after execute_hdc(args, ...) has returned or raised `out`
AfterRemove(j, args, out) ==
    IF out.exc # NoExc THEN ShotRaised(j, args, out)
    ELSE [j EXCEPT !.pc = "return", !.issued = Append(@, args),
                   !.cleanup_result = out.value]

\* what the device steps of hdc_screenshot leave alone
ShotFrame ==
    UNCHANGED <<hdc_executable, hvigor_executable, last, log, crashed,
                tr, nz, cl, rs, world>>

ScreenshotInit ==
    /\ hdc_executable = s_hdc
    /\ hvigor_executable = s_hvigorw
    /\ last = NoCall
    /\ log = <<>>
    /\ crashed = FALSE
    /\ tr = NoTrunc
    /\ nz = NoNorm
    /\ cl = NoCmd
    /\ rs = NoResolve
    /\ environ = NoEnviron
    /\ fs \in ProjectFileSystems
    /\ threads = <<>>
    /\ procs = {}
    /\ job = NoJob

\* hdc_screenshot(project_dir, output_path, filename, ...): the project
\* directory is checked, the output directory is made when it is missing
\* (which can fail), and the device path is made up
ScreenshotCall ==
    /\ job = NoJob
    /\ \E output_path \in OutputPaths, device_temp_path \in DeviceTempPaths,
          mkdir_fails \in BOOLEAN :
          LET local_dir == LocalDir(s_dir_proj, output_path)
              j == [pc |-> "snapshot", name |-> "hdc_screenshot",
                    project_dir |-> s_dir_proj, output_path |-> output_path,
                    local_path |-> path_join(local_dir, s_local_name),
                    device_temp_path |-> device_temp_path,
                    issued |-> <<>>, snapshot_result |-> NotADict,
                    recv_result |-> NotADict, cleanup_result |-> NotADict,
                    raised |-> NoExc, result |-> [success |-> FALSE]]
          IN IF ~os_path_isdir(fs, s_dir_proj)
             THEN /\ job' = [j EXCEPT !.pc = "done",
                                      !.result = NoProjectPayload(j)]
                  /\ fs' = fs
             ELSE IF os_path_exists(fs, local_dir)
             THEN /\ ~mkdir_fails
                  /\ job' = j
                  /\ fs' = fs
             ELSE IF mkdir_fails
             THEN /\ job' = [j EXCEPT !.pc = "done",
                                      !.result = NoOutputDirPayload(j)]
                  /\ fs' = fs
             ELSE /\ job' = j
                  /\ fs' = [fs EXCEPT !.dirs = @ \cup {local_dir}]
    /\ UNCHANGED <<hdc_executable, hvigor_executable, last, log, crashed,
                   tr, nz, cl, rs, environ, threads, procs>>

\* step 1/3: shell snapshot_display -f <device_temp_path>
SnapshotStep ==
    /\ job.pc = "snapshot"
    /\ \E proc \in ShotProcs :
          job' = AfterSnapshot(job, SnapshotArgs(job.device_temp_path),
                               execute_hdc(hdc_executable,
                                           SnapshotArgs(job.device_temp_path),
                                           None, proc))
    /\ ShotFrame

\* step 2/3: file recv <device_temp_path> <local_path>
RecvStep ==
    /\ job.pc = "recv"
    /\ \E proc \in ShotProcs :
          job' = AfterRecv(job,
                           RecvArgs(job.device_temp_path, job.local_path),
                           execute_hdc(hdc_executable,
                                       RecvArgs(job.device_temp_path,
                                                job.local_path),
                                       None, proc))
    /\ ShotFrame

\* the transfer failed: shell rm <device_temp_path>, then the failure payload
FailedRecvRemove ==
    /\ job.pc = "recv_failed"
    /\ \E proc \in ShotProcs :
          job' = AfterFailedRecvRemove(job, RemoveArgs(job.device_temp_path),
                                       execute_hdc(hdc_executable,
                                                   RemoveArgs(job.device_temp_path),
                                                   None, proc))
    /\ ShotFrame

\* step 3/3: shell rm <device_temp_path>
RemoveStep ==
    /\ job.pc = "remove"
    /\ \E proc \in ShotProcs :
          job' = AfterRemove(job, RemoveArgs(job.device_temp_path),
                             execute_hdc(hdc_executable,
                                         RemoveArgs(job.device_temp_path),
                                         None, proc))
    /\ ShotFrame

\* the end of the try block: the payload with success = True is returned
ScreenshotReturn ==
    /\ job.pc = "return"
    /\ job' = [job EXCEPT !.pc = "done", !.result = ScreenshotPayload(job)]
    /\ ShotFrame

\* `except Exception`: shell rm <device_temp_path> is tried, whatever it
\* returns or raises is dropped, and the failure payload is returned
ScreenshotExcept ==
    /\ job.pc = "except"
    /\ \E proc \in ShotProcs :
          job' = [job EXCEPT !.pc = "done",
                             !.issued = Append(@, RemoveArgs(job.device_temp_path)),
                             !.result = ScreenshotFailedPayload(job)]
    /\ ShotFrame

ScreenshotNext ==
    \/ ScreenshotCall
    \/ SnapshotStep
    \/ RecvStep
    \/ FailedRecvRemove
    \/ RemoveStep
    \/ ScreenshotReturn
    \/ ScreenshotExcept

SpecScreenshot == ScreenshotInit /\ [][ScreenshotNext]_vars

---------------------------------------------------------------------------
(* Properties *)

IsRun == last.op \in {"HdcRunner.run", "HvigorRunner.run"}

IsWrapped == last.op \in {"list_targets", "hvigor_clean", "operation"}

\* the resolved executable of the invoker that served the last call
ExecutableOfLast ==
    IF last.op \in {"HdcRunner.run", "execute_hdc", "list_targets"}
    THEN hdc_executable
    ELSE hvigor_executable

\* sub occurs in text
Contains(text, sub) ==
    \E i \in 0..(Len(text) - Len(sub)) : SubSeq(text, i + 1, i + Len(sub)) = sub

\* the last n elements of a sequence
LastLines(lines, n) == SubSeq(lines, Len(lines) - n + 1, Len(lines))

\* C1: when the spawned process exceeds the timeout, run of either invoker
\* returns (it does not raise) a result with timed_out = true and
\* returncode = -1; every result with timed_out = true has returncode = -1.
C1_TimeoutIsAResult ==
    /\ (IsRun /\ last.proc.kind = "TimeoutExpired")
          => /\ last.exc = NoExc
             /\ last.value.timed_out
             /\ last.value.returncode = -1
    /\ (IsRun /\ last.exc = NoExc /\ last.value.timed_out)
          => last.value.returncode = -1

C3_CrashIsolation ==
    [][/\ hdc_executable' = hdc_executable
       /\ hvigor_executable' = hvigor_executable
       /\ IsWrapped' =>
             /\ last'.exc = NoExc
             /\ last'.value.pytype \in {"dict", "NoneType"}
             /\ last'.body.exc = NoExc => last'.value = last'.body.value
             /\ last'.body.exc # NoExc =>
                   /\ last'.value.d.success = FALSE
                   /\ last'.value.d.error = last'.body.exc.msg]_vars

C3_Witness ==
    /\ last.op = "list_targets"
    /\ last.after_crash
    /\ last.body.exc = NoExc
    /\ last.exc = NoExc
    /\ last.value.d.returncode = 0

\* C4: when the spawned process exits with a non-zero code c, run of either
\* invoker does not raise and returns a result with returncode = c and
\* timed_out = false.
C4_NonZeroExitIsAResult ==
    (IsRun /\ last.proc.kind = "completed" /\ last.proc.returncode # 0)
        => /\ last.exc = NoExc
           /\ last.value.returncode = last.proc.returncode
           /\ last.value.timed_out = FALSE

C4_Witness ==
    /\ last.op = "HdcRunner.run"
    /\ last.proc.kind = "completed"
    /\ last.proc.returncode = 3
    /\ last.exc = NoExc
    /\ last.value.returncode = 3
    /\ ~last.value.timed_out

\* C5: when the operating system reports at spawn time that the executable
\* is not found, run of either invoker raises a RuntimeError whose message
\* carries the resolved executable path, and produces no result.
C5_NotFoundRaises ==
    (IsRun /\ last.proc.kind = "FileNotFoundError")
        => /\ last.exc.type = "RuntimeError"
           /\ Contains(last.exc.msg, ExecutableOfLast)
           /\ last.value = None

C5_Witness ==
    /\ last.op = "HdcRunner.run"
    /\ hdc_executable = s_sdk_hdc
    /\ last.proc.kind = "FileNotFoundError"
    /\ last.exc.type = "RuntimeError"
    /\ last.exc.msg = s_unable \o s_sdk_hdc \o s_ensure_hdc

\* C6: when a wrapped operation returns, the wrapper takes the value of the
\* result's success key if there is one, else returncode = 0 if there is a
\* returncode key, else success; it logs at info level on success and at
\* warning level, with the arguments and the error field if any, on
\* failure; either way it returns the operation's result unchanged.
C6_Classification ==
    (IsWrapped /\ last.body.exc = NoExc) =>
        LET r == last.body.value
            isdict == r.pytype = "dict"
            success == IF isdict /\ "success" \in DOMAIN r.d
                       THEN r.d.success
                       ELSE IF isdict /\ "returncode" \in DOMAIN r.d
                       THEN r.d.returncode = 0
                       ELSE TRUE
            events == {log[i].event : i \in 1..Len(log)}
            warnings == {i \in 1..Len(log) : log[i].level = "warning"
                            /\ log[i].event \in {"call.failed",
                                                 "call.failed_params",
                                                 "call.error"}}
        IN /\ last.exc = NoExc
           /\ last.value = r
           /\ success =>
                 /\ \E i \in 1..Len(log) : /\ log[i].event = "call.succeeded"
                                           /\ log[i].level = "info"
                 /\ warnings = {}
           /\ ~success =>
                 /\ "call.succeeded" \notin events
                 /\ \E i \in warnings : log[i].event = "call.failed"
                 /\ \E i \in warnings :
                       /\ log[i].event = "call.failed_params"
                       /\ log[i].data = [k \in DOMAIN last.inputs.kwargs
                                              \ {"ctx"}
                                           |-> last.inputs.kwargs[k]]
                 /\ (isdict /\ "error" \in DOMAIN r.d) =>
                       \E i \in warnings : /\ log[i].event = "call.error"
                                           /\ log[i].data = r.d.error

C6_Witness ==
    /\ last.op = "operation"
    /\ last.body.value = PyDict([success |-> TRUE, returncode |-> 3])
    /\ last.value = last.body.value
    /\ \E i \in 1..Len(log) : log[i].event = "call.succeeded"

\* C7: for a text of L lines and a bound max_lines >= 0 with L > max_lines,
\* the truncator returns the notice line
\* "[Output truncated: showing last {max_lines} of {L} lines]" followed by
\* exactly the last max_lines lines of the input, in order, joined by line
\* breaks.
C7_TruncatedForm ==
    LET lines == splitlines(tr.output.chars)
    IN (tr.done /\ tr.output.kind = "str" /\ Len(lines) > tr.max_lines) =>
          tr.result =
              Returned(Str(truncation_notice(tr.max_lines, Len(lines))
                           \o <<LF>>
                           \o join(<<LF>>, LastLines(lines, tr.max_lines))))

\* C8: a text of at most max_lines lines, the empty text included, comes
\* back from the truncator unchanged, character for character.
C8_Identity ==
    (tr.done /\ Len(splitlines(tr.output.chars)) <= tr.max_lines)
        => tr.result = Returned(tr.output)

C8_Witness ==
    /\ tr.done
    /\ tr.output = Str(<<"a", CR, LF, "b">>)
    /\ tr.max_lines = 2
    /\ tr.result = Returned(tr.output)

\* C9: in every result that run of either invoker returns, on the normal
\* and on the timeout path and for every max_output_lines >= 0, stdout and
\* stderr have at most max_output_lines + 1 lines.
C9_OutputBound ==
    (IsRun /\ last.exc = NoExc) =>
        /\ Len(splitlines(last.value.stdout.chars))
              <= last.inputs.max_output_lines + 1
        /\ Len(splitlines(last.value.stderr.chars))
              <= last.inputs.max_output_lines + 1

IsInvocation ==
    last.op \in {"HdcRunner.run", "HvigorRunner.run",
                 "execute_hdc", "execute_hvigor"}

\* the command recorded in the result of the last call
ResultCommand ==
    IF IsRun THEN last.value.command ELSE last.value.d.command

\* C11: the command handed to the spawn, and recorded in the result, is the
\* resolved executable, then "-t" and the device exactly when the call went
\* to the device-tool invoker with a device (a non-empty device id), then
\* the caller's args, element for element in their order.
C11_CommandShape ==
    (IsInvocation /\ last.spawns # <<>>) =>
        LET command == last.spawns[1]
            args == last.inputs.args
            flagged == /\ last.op \in {"HdcRunner.run", "execute_hdc"}
                       /\ last.inputs.device \notin {None, Str(<<>>)}
            skip == IF flagged THEN 3 ELSE 1
        IN /\ Len(last.spawns) = 1
           /\ Len(command) = skip + Len(args)
           /\ command[1] = ExecutableOfLast
           /\ flagged => /\ command[2] = <<"-", "t">>
                         /\ command[3] = last.inputs.device.chars
           /\ \A i \in 1..Len(args) : command[skip + i] = args[i]
           /\ last.exc = NoExc => ResultCommand = command

C11_Witness ==
    /\ last.op = "HdcRunner.run"
    /\ last.inputs.device = Str(s_dev1)
    /\ last.inputs.args = <<s_shell, s_ls>>
    /\ last.exc = NoExc
    /\ last.value.command = <<s_sdk_hdc, s_t, s_dev1, s_shell, s_ls>>

\* the levels of the records the last call logged
LoggedLevels == {log[i].level : i \in 1..Len(log)}

\* the records the last call logged at warning or error level
FailureRecords ==
    {log[i].event : i \in {j \in 1..Len(log) :
                              log[j].level \in {"warning", "error"}}}

\* C18: every failing outcome of run of either invoker (timeout, non-zero
\* exit, executable not found) makes the invoker log a record of the failure
\* before run returns or raises, the non-zero exit as a warning and the
\* timeout as a record of its own, not the one of a non-zero exit; and the
\* wrapper logs every failure its operation raises before it returns the
\* failure payload.
C18_FailuresAreLogged ==
    /\ (IsRun /\ last.proc.kind = "completed" /\ last.proc.returncode # 0)
          => \E i \in 1..Len(log) : log[i].level = "warning"
    /\ (IsRun /\ last.proc.kind = "TimeoutExpired")
          => /\ FailureRecords # {}
             /\ \A e \in FailureRecords : e \notin {"hdc.failed", "hdc.stderr"}
    /\ (IsRun /\ last.proc.kind = "FileNotFoundError")
          => FailureRecords # {}
    /\ (IsWrapped /\ last.body.exc # NoExc)
          => "error" \in LoggedLevels

\* C19: when the operating system refuses to execute the resolved executable
\* (it is not executable, or it is a directory), run of either invoker fails
\* as it does for an executable that is not found: with a RuntimeError whose
\* message carries the resolved executable path.
C19_NotExecutableIsEnvironmentError ==
    (IsRun /\ last.proc.kind = "PermissionError")
        => /\ last.exc.type = "RuntimeError"
           /\ Contains(last.exc.msg, ExecutableOfLast)

\* C20: in every result returned by run of either invoker, returncode = -1
\* implies timed_out = true.
C20_MinusOneMeansTimeout ==
    (IsRun /\ last.exc = NoExc /\ last.value.returncode = -1)
        => last.value.timed_out

\* the expansion of each path of ResolvePaths, with HOME = /home
ExpansionOf(path) ==
    IF path \in {s_tilde_sdk, s_var_sdk} THEN s_home \o s_sdk ELSE path

\* the entry of <tool>.exe under bin
BinExe(tool) ==
    IF tool = "hdc" THEN <<s_bin, s_hdc_exe>> ELSE <<s_bin, s_hvigorw_exe>>

\* the directory given to the resolver holds entry n and nothing else
HoldsOnly(n) ==
    /\ rs.kind = "dir"
    /\ rs.kinds[n] = "file"
    /\ \A m \in DOMAIN rs.kinds \ {n} : rs.kinds[m] = "absent"

\* the ordered candidate list of each resolver, as entries of the directory
CandidateOrder(tool) ==
    IF tool = "hdc"
    THEN <<<<s_hdc>>, <<s_hdc_exe>>, <<s_bin, s_hdc>>, <<s_bin, s_hdc_exe>>>>
    ELSE <<<<s_hvigorw_name>>, <<s_bin, s_hvigorw_name>>>>

\* the places in the candidate list of the candidates that are regular files
FileCandidates ==
    {i \in 1..Len(CandidateOrder(rs.tool)) :
        rs.kinds[CandidateOrder(rs.tool)[i]] = "file"}

\* C14 as stated: each of the two resolvers, given an existing directory
\* that holds only bin/<toolname>.exe, returns dir/bin/<toolname>.exe, and
\* given an existing directory that holds none of the candidates returns
\* the directory unchanged.
C14_OnlyBinExe ==
    rs.done =>
        /\ HoldsOnly(BinExe(rs.tool))
              => rs.result = Returned(Under(rs.base, BinExe(rs.tool)))
        /\ (rs.kind = "dir" /\ \A m \in DOMAIN rs.kinds : rs.kinds[m] = "absent")
              => rs.result = Returned(ExpansionOf(rs.path))

\* C14 amended: the device-tool resolver, given an existing directory that
\* holds only bin/hdc.exe, returns dir/bin/hdc.exe; the build-tool resolver,
\* whose candidates are hvigorw and bin/hvigorw, returns a directory that
\* holds only bin/hvigorw.exe unchanged; each resolver returns an existing
\* directory that holds none of its candidates unchanged.
C14_OnlyBinExeByTool ==
    rs.done =>
        /\ (rs.tool = "hdc" /\ HoldsOnly(BinExe("hdc")))
              => rs.result = Returned(Under(rs.base, BinExe("hdc")))
        /\ (rs.tool = "hvigor" /\ HoldsOnly(BinExe("hvigor")))
              => rs.result = Returned(ExpansionOf(rs.path))
        /\ (rs.kind = "dir"
            /\ \A i \in 1..Len(CandidateOrder(rs.tool)) :
                  rs.kinds[CandidateOrder(rs.tool)[i]] = "absent")
              => rs.result = Returned(ExpansionOf(rs.path))

C14_Witness ==
    /\ rs.done
    /\ rs.tool = "hdc"
    /\ rs.path = s_sdk
    /\ HoldsOnly(<<s_bin, s_hdc_exe>>)
    /\ rs.result = Returned(s_sdk \o <<"/">> \o s_bin \o <<"/">> \o s_hdc_exe)

\* C15: the resolver never raises; it returns a path that does not exist,
\* and a path that is a regular file, as expanded; for a directory it
\* returns the first candidate of its ordered list that is a regular file
\* (candidates that are directories are passed over), and the expanded
\* directory when no candidate is a regular file.
C15_ResolverCases ==
    rs.done =>
        /\ rs.result.exc = NoExc
        /\ rs.kind \in {"absent", "file"}
              => rs.result.value = ExpansionOf(rs.path)
        /\ (rs.kind = "dir" /\ FileCandidates = {})
              => rs.result.value = ExpansionOf(rs.path)
        /\ (rs.kind = "dir" /\ FileCandidates # {})
              => \E i \in FileCandidates :
                    /\ \A j \in FileCandidates : i <= j
                    /\ rs.result.value
                          = Under(rs.base, CandidateOrder(rs.tool)[i])

C15_Witness ==
    /\ rs.done
    /\ rs.tool = "hdc"
    /\ rs.path = s_tilde_sdk
    /\ rs.kind = "dir"
    /\ rs.kinds[<<s_hdc>>] = "dir"
    /\ rs.kinds[<<s_hdc_exe>>] = "absent"
    /\ rs.kinds[<<s_bin, s_hdc>>] = "file"
    /\ rs.kinds[<<s_bin, s_hdc_exe>>] = "file"
    /\ rs.result = Returned(s_home \o s_sdk \o <<"/">> \o s_bin \o <<"/">> \o s_hdc)

\* s[i..j] is a match of the pattern ESC "[" (digit or ";")* "m"
IsAnsiMatch(s, i, j) ==
    /\ i + 2 <= j
    /\ s[i] = ESC
    /\ s[i + 1] = "["
    /\ s[j] = "m"
    /\ \A k \in (i + 2)..(j - 1) :
          s[k] \in {"0", "1", "2", "3", "4", "5", "6", "7", "8", "9", ";"}

\* the positions of s that lie in no match of the pattern
KeptPositions(s) ==
    {k \in 1..Len(s) :
        ~\E i \in 1..k, j \in k..Len(s) : IsAnsiMatch(s, i, j)}

\* s with every match of the pattern deleted
WithoutAnsi(s) ==
    LET kept == KeptPositions(s)
    IN [n \in 1..Cardinality(kept) |->
           s[CHOOSE k \in kept : Cardinality({x \in kept : x <= k}) = n]]

\* s from its first to its last character that is not whitespace
Trimmed(s) ==
    LET solid == {k \in 1..Len(s) : s[k] \notin {" ", "\t", "\f", LF, CR}}
    IN IF solid = {} THEN <<>>
       ELSE SubSeq(s, CHOOSE a \in solid : \A b \in solid : a <= b,
                      CHOOSE a \in solid : \A b \in solid : a >= b)

\* C12: the stdout and stderr as_dict produces are the raw fields with the
\* leading and trailing whitespace removed and then every match of
\* ESC "[" (digit or ";")* "m" deleted, the other characters kept in their
\* order; returncode, timed_out, command (and cwd of the build invoker) are
\* passed through; the result object is as it was.
C12_Normalised ==
    (nz # NoNorm /\ nz.done) =>
        /\ nz.result = nz.given
        /\ nz.out.exc = NoExc =>
              LET d == nz.out.value.d
              IN /\ d.stdout = WithoutAnsi(Trimmed(nz.given.stdout.chars))
                 /\ d.stderr = WithoutAnsi(Trimmed(nz.given.stderr.chars))
                 /\ d.returncode = nz.given.returncode
                 /\ d.timed_out = nz.given.timed_out
                 /\ d.command = nz.given.command
                 /\ nz.tool = "hvigor" => d.cwd = nz.given.cwd

C12_Witness ==
    /\ nz # NoNorm
    /\ nz.done
    /\ nz.given.stdout = Str(<<" ", ESC, "[", "m">>)
    /\ nz.given.returncode = 3
    /\ nz.out.exc = NoExc
    /\ nz.out.value.d.stdout = <<>>
    /\ nz.out.value.d.stderr = <<" ", "e">>

\* the tokens a POSIX shell tokenizer (Python's shlex.split) reads from s,
\* scanning from position i: `state` is " " between words, "a" in a word, a
\* quote character inside quotes and the backslash after an escape;
\* `escapedstate` is the state an escape returns to; `quoted` tells that
\* the word had a quoted part; a quote left open and a final backslash
\* raise ValueError
RECURSIVE ShlexScan(_, _, _, _, _, _, _)
ShlexScan(s, i, state, escapedstate, quoted, token, tokens) ==
    LET eof == i > Len(s)
        c == IF eof THEN "" ELSE s[i]
        blank == c \in {" ", "\t", CR, LF}
        emit == token # <<>> \/ quoted
    IN CASE state = " " ->
              IF eof THEN Returned(tokens)
              ELSE IF blank
              THEN IF emit
                   THEN ShlexScan(s, i + 1, " ", " ", FALSE, <<>>,
                                  Append(tokens, token))
                   ELSE ShlexScan(s, i + 1, " ", escapedstate, quoted, token,
                                  tokens)
              ELSE IF c = "\\"
              THEN ShlexScan(s, i + 1, "\\", "a", quoted, token, tokens)
              ELSE IF c \in {"'", "\""}
              THEN ShlexScan(s, i + 1, c, escapedstate, quoted, token, tokens)
              ELSE ShlexScan(s, i + 1, "a", escapedstate, quoted, <<c>>, tokens)
         [] state \in {"'", "\""} ->
              IF eof THEN Raised(Exc("ValueError", <<"N", "o", " ", "c", "l",
                                      "o", "s", "i", "n", "g", " ", "q", "u",
                                      "o", "t", "a", "t", "i", "o", "n">>))
              ELSE IF c = state
              THEN ShlexScan(s, i + 1, "a", escapedstate, TRUE, token, tokens)
              ELSE IF c = "\\" /\ state = "\""
              THEN ShlexScan(s, i + 1, "\\", state, TRUE, token, tokens)
              ELSE ShlexScan(s, i + 1, state, escapedstate, TRUE,
                             Append(token, c), tokens)
         [] state = "\\" ->
              IF eof THEN Raised(Exc("ValueError", <<"N", "o", " ", "e", "s",
                                      "c", "a", "p", "e", "d", " ", "c", "h",
                                      "a", "r", "a", "c", "t", "e", "r">>))
              ELSE ShlexScan(s, i + 1, escapedstate, escapedstate, quoted,
                             (IF escapedstate \in {"'", "\""}
                                 /\ c # "\\" /\ c # escapedstate
                              THEN Append(token, "\\") ELSE token) \o <<c>>,
                             tokens)
         [] OTHER ->
              IF eof
              THEN Returned(IF emit THEN Append(tokens, token) ELSE tokens)
              ELSE IF blank
              THEN IF emit
                   THEN ShlexScan(s, i + 1, " ", " ", FALSE, <<>>,
                                  Append(tokens, token))
                   ELSE ShlexScan(s, i + 1, " ", escapedstate, quoted, token,
                                  tokens)
              ELSE IF c \in {"'", "\""}
              THEN ShlexScan(s, i + 1, c, escapedstate, quoted, token, tokens)
              ELSE IF c = "\\"
              THEN ShlexScan(s, i + 1, "\\", "a", quoted, token, tokens)
              ELSE ShlexScan(s, i + 1, "a", escapedstate, quoted,
                             Append(token, c), tokens)

\* shlex.split(s)
ShlexSplit(s) == ShlexScan(s, 1, " ", " ", FALSE, <<>>, <<>>)

\* C13: for every command, also with elements that are empty or hold
\* blanks, quotes, backslashes or shell metacharacters, splitting its
\* command_line with the shell tokenizer gives back the command, element
\* for element.
C13_RoundTrip ==
    (cl # NoCmd /\ cl.done) => ShlexSplit(cl.command_line) = Returned(cl.command)

C13_Witness ==
    /\ cl # NoCmd
    /\ cl.done
    /\ cl.command = <<<<"a", " ", "b">>, <<"a", "'", "\"">>, <<>>>>
    /\ cl.command_line =
          <<"'", "a", " ", "b", "'", " ",
            "'", "a", "'", "\"", "'", "\"", "'", "\"", "'", " ", "'", "'">>
    /\ ShlexSplit(cl.command_line).value = cl.command


\* the threads whose call has got as far as building its command
Built == {t \in 1..MaxThreads : threads[t].command # <<>>}

\* the threads whose call has merged its environment
Merged ==
    {t \in 1..MaxThreads :
        threads[t].pc \in {"merged", "waiting", "ended"}
        \/ (threads[t].pc = "done" /\ threads[t].command # <<>>)}

\* the executable held by the invoker a request goes to
ExecutableOf(request) ==
    IF request.tool = "hdc" THEN hdc_executable ELSE hvigor_executable

\* the processes spawned by the call of thread t
Attempts(t) == {p \in procs : p.owner = t}

\* the executables resolved when the invokers were constructed
ConstructedHdc == HdcRunner_init(StartEnviron, StartFiles)
ConstructedHvigor == HvigorRunner_init(StartEnviron, StartFiles)

\* the overrides win in the merged environment, every other key is the
\* inherited one
OverridesWin(final_env, inherited, env) ==
    /\ DOMAIN final_env = DOMAIN inherited \cup DOMAIN env
    /\ \A k \in DOMAIN env : final_env[k] = env[k]
    /\ \A k \in DOMAIN inherited \ DOMAIN env : final_env[k] = inherited[k]

\* every command built so far starts with the executable the invoker was
\* constructed with, every process runs its own call's command in its own
\* call's merged environment, and two calls with the same request whose
\* processes ended the same way have the same result
CallsAreIndependent ==
    /\ hdc_executable = ConstructedHdc
    /\ hvigor_executable = ConstructedHvigor
    /\ \A t \in Built :
          threads[t].command[1] = ExecutableOf(threads[t].request)
    /\ \A t \in Merged :
          OverridesWin(threads[t].final_env, threads[t].inherited,
                       threads[t].request.env)
    /\ \A p \in procs :
          /\ p.command = threads[p.owner].command
          /\ p.env = threads[p.owner].final_env
    /\ \A t \in 1..MaxThreads, u \in 1..MaxThreads :
          (/\ threads[t].pc = "done"
           /\ threads[u].pc = "done"
           /\ threads[t].request = threads[u].request
           /\ {p.state : p \in Attempts(t)} = {p.state : p \in Attempts(u)})
          => threads[t].result = threads[u].result
    /\ \A t \in 1..MaxThreads :
          (threads[t].pc = "done" /\ threads[t].result.exc = NoExc) =>
              threads[t].result.value.command =
                  IF threads[t].request.tool = "hdc"
                  THEN HdcCommand(hdc_executable, threads[t].request.args,
                                  threads[t].request.device)
                  ELSE <<hvigor_executable>> \o threads[t].request.args

\* C16: the invokers hold no mutable shared state.  The resolved executable
\* is the one computed at construction and no step changes it, whatever the
\* interleaving of concurrent run calls and of later changes to the file
\* system and to the environment variables; every call's command starts with
\* it; a step of a run call changes neither the invoker nor the environment
\* of the service process, the overrides being merged into a copy made for
\* the call, where they win over the inherited keys; a step of one call
\* changes no other call, and the result of a call is that of its own request
\* and its own process.
C16_NoSharedState ==
    [][/\ hdc_executable' = hdc_executable
       /\ hvigor_executable' = hvigor_executable
       /\ threads' # threads => (environ' = environ /\ fs' = fs)
       /\ \A t \in 1..MaxThreads, u \in 1..MaxThreads :
             (t # u /\ threads'[t] # threads[t]) =>
                 /\ threads'[u] = threads[u]
                 /\ {p \in procs' : p.owner = u} = {p \in procs : p.owner = u}
       /\ CallsAreIndependent']_vars

C16_Witness ==
    \E t \in 1..MaxThreads, u \in 1..MaxThreads :
        /\ t # u
        /\ threads[t].pc = "done"
        /\ threads[u].pc = "done"
        /\ threads[t].request.tool = "hdc"
        /\ threads[u].request.tool = "hvigor"
        /\ threads[t].request.env = NoEnviron
        /\ threads[u].request.env # NoEnviron
        /\ threads[t].inherited = StartEnviron
        /\ threads[u].inherited # StartEnviron
        /\ threads[t].final_env = StartEnviron
        /\ threads[u].final_env[s_HVIGORW_PATH] = s_other
        /\ threads[u].final_env[s_HDC_PATH] = s_other
        /\ threads[u].final_env[s_LANG] = s_C
        /\ threads[t].result.exc = NoExc
        /\ threads[t].result.value.command[1] = hdc_executable
        /\ threads[u].result.exc = NoExc
        /\ threads[u].result.value.command[1] = hvigor_executable
        /\ environ # StartEnviron
        /\ fs # StartFiles
        /\ HdcRunner_init(environ, fs) # hdc_executable
        /\ HvigorRunner_init(environ, fs) # hvigor_executable

\* C17: a run call that passes input validation attempts exactly one spawn
\* of an external process, and it returns or raises only after that process
\* has exited, has been killed at the timeout, or has failed to spawn; a call
\* that timed out has still spawned once only; a call that fails validation
\* spawns nothing; and every call has a process of its own, also when
\* another call in progress has the same request.
C17_OneSpawnPerCall ==
    /\ \A t \in 1..MaxThreads :
          /\ threads[t].pc \in {"idle", "built", "merged"} =>
                Attempts(t) = {}
          /\ threads[t].pc = "waiting" =>
                /\ Cardinality(Attempts(t)) = 1
                /\ \A p \in Attempts(t) : p.state = "running"
          /\ threads[t].pc = "ended" =>
                /\ Cardinality(Attempts(t)) = 1
                /\ \A p \in Attempts(t) :
                      p.state \in {"exited", "killed", "failed"}
          /\ threads[t].pc = "done" =>
                IF Validation(threads[t].request) = NoExc
                THEN /\ Cardinality(Attempts(t)) = 1
                     /\ \A p \in Attempts(t) :
                           /\ p.state \in {"exited", "killed", "failed"}
                           /\ p.state = "killed" <=>
                                 (/\ threads[t].result.exc = NoExc
                                  /\ threads[t].result.value.timed_out)
                           /\ p.state = "failed" <=>
                                 threads[t].result.exc # NoExc
                ELSE /\ Attempts(t) = {}
                     /\ threads[t].result.exc # NoExc
    /\ Cardinality(procs) =
          Cardinality({t \in 1..MaxThreads : threads[t].pc \in {"waiting", "ended"}
                          \/ (threads[t].pc = "done" /\ threads[t].command # <<>>)})

C17_Witness ==
    \E t \in 1..MaxThreads, u \in 1..MaxThreads :
        /\ t # u
        /\ threads[t].request = threads[u].request
        /\ threads[t].pc = "done"
        /\ threads[t].result.exc = NoExc
        /\ threads[t].result.value.timed_out
        /\ threads[u].pc = "waiting"
        /\ Cardinality(procs) = 2
        /\ \E p \in Attempts(t), q \in Attempts(u) :
              /\ p.command = q.command
              /\ p.state = "killed"
              /\ q.state = "running"

\* text has no whitespace at either end and no match of the pattern
\* ESC "[" (digit or ";")* "m"
TransportClean(text) ==
    /\ Trimmed(text) = text
    /\ KeptPositions(text) = 1..Len(text)

\* C26: the stdout and stderr as_dict returns are transport-clean for every
\* raw text: no whitespace at either end and no escape sequence left in them.
C26_TransportClean ==
    (nz # NoNorm /\ nz.done /\ nz.out.exc = NoExc) =>
        /\ TransportClean(nz.out.value.d.stdout)
        /\ TransportClean(nz.out.value.d.stderr)

\* what the truncator keeps of a captured output: the output itself when it
\* is empty or has at most max_lines lines, else the notice line and the
\* last max_lines lines (all the lines when max_lines is 0)
Truncation(output, max_lines) ==
    LET lines == splitlines(output.chars)
    IN IF output.kind = "None" \/ Len(lines) <= max_lines THEN output
       ELSE Str(truncation_notice(max_lines, Len(lines)) \o <<LF>>
                \o join(<<LF>>, IF max_lines = 0 THEN lines
                                ELSE LastLines(lines, max_lines)))

\* nothing was captured on a stream: None, or an empty text
Nothing(captured) == captured.kind = "None" \/ captured.chars = <<>>

\* the last call was a run that timed out and returned a result
TimedOutResult ==
    /\ IsRun
    /\ last.proc.kind = "TimeoutExpired"
    /\ last.exc = NoExc

\* the text the timeout handler of the last call's invoker puts in place of
\* a stderr on which nothing was captured
TimeoutPlaceholder ==
    IF last.op = "HdcRunner.run" THEN Str(s_timeout_hdc)
    ELSE Str(s_timeout_hvigorw)

\* the field of a timeout result for a stream, given what stands for a
\* stream on which nothing was captured
SalvagedAs(field, captured, placeholder) ==
    field = Truncation(IF Nothing(captured) THEN placeholder ELSE captured,
                       last.inputs.max_output_lines)

IsPrefix(a, b) == Len(a) <= Len(b) /\ SubSeq(b, 1, Len(a)) = a

\* a call of hdc_install_app is under way or has returned
IsInstall == job # NoJob /\ job.name = "hdc_install_app"

\* the device commands of a call in their fixed order: force-stop only with
\* force_stop and a bundle name, start only with auto_start and a bundle name
FixedOrder(j) ==
    (IF j.force_stop /\ j.bundle_name.kind = "str" /\ j.bundle_name.chars # <<>>
     THEN <<<<s_shell, s_aa, s_force_stop, j.bundle_name.chars>>>> ELSE <<>>)
    \o <<<<s_shell, s_mkdir, j.temp_dir>>,
         <<s_file_arg, s_send, j.hap_path, j.temp_dir>>,
         <<s_shell, s_bm, s_install, s_p, j.temp_dir>>,
         <<s_shell, s_rm, s_rf, j.temp_dir>>>>
    \o (IF j.auto_start /\ j.bundle_name.kind = "str" /\ j.bundle_name.chars # <<>>
        THEN <<<<s_shell, s_aa, s_start, s_a, j.ability_name, s_b,
                 j.bundle_name.chars>>>>
        ELSE <<>>)

\* the positions at which the call issued `shell rm -rf <temp_dir>`
CleanupAt(j) ==
    {i \in 1..Len(j.issued) : j.issued[i] = <<s_shell, s_rm, s_rf, j.temp_dir>>}

\* the positions at which the call issued `shell bm install -p <temp_dir>`
InstallAt(j) ==
    {i \in 1..Len(j.issued) :
        j.issued[i] = <<s_shell, s_bm, s_install, s_p, j.temp_dir>>}

\* the commands the try block issued: all of them, but the handler's cleanup
\* once a step has raised
IssuedByBody(j) ==
    IF j.pc = "done" /\ j.raised # NoExc
    THEN SubSeq(j.issued, 1, Len(j.issued) - 1)
    ELSE j.issued

\* C22: in hdc_install_app, when the HAP file does not exist no device
\* command is issued; otherwise the commands of the body are issued in the
\* fixed order force-stop (only with force_stop and a bundle name), mkdir,
\* file send, bm install, rm -rf, aa start (only with auto_start and a
\* bundle name), up to the end or to the step that raised, and before the
\* operation returns a `shell rm -rf <temp_dir>` for the call's own temp_dir
\* has been attempted after the install step, or after the step that raised.
C22_CleanupAndOrder ==
    IsInstall =>
        /\ ~os_path_isfile(fs, job.hap_path) => job.issued = <<>>
        /\ IsPrefix(IssuedByBody(job), FixedOrder(job))
        /\ (job.pc = "done" /\ os_path_isfile(fs, job.hap_path)) =>
              /\ CleanupAt(job) # {}
              /\ \A i \in InstallAt(job) : \E c \in CleanupAt(job) : i < c
              /\ job.raised # NoExc =>
                    /\ Len(job.issued) \in CleanupAt(job)
                    /\ IssuedByBody(job) # <<>>
              /\ job.raised = NoExc => IssuedByBody(job) = FixedOrder(job)

C22_Witness ==
    /\ IsInstall
    /\ job.pc = "done"
    /\ job.force_stop
    /\ job.raised.type = "RuntimeError"
    /\ job.issued = <<StopArgs(job.bundle_name), MkdirArgs(job.temp_dir),
                      TransferArgs(job.hap_path, job.temp_dir),
                      CleanupArgs(job.temp_dir)>>
    /\ DOMAIN job.steps = {"stop", "create_dir"}

\* C23: hdc_install_app issues the start command only if the install step
\* of the same call returned returncode 0, and never after a mkdir,
\* transfer or install step that failed or timed out.
C23_StartOnlyAfterInstall ==
    (IsInstall
     /\ \E i \in 1..Len(job.issued) :
           job.issued[i] = StartArgs(job.ability_name, job.bundle_name)) =>
        \A k \in {"create_dir", "transfer", "install"} :
            /\ k \in DOMAIN job.steps
            /\ job.steps[k].d.returncode = 0
            /\ ~job.steps[k].d.timed_out

\* the key under which the body records a device command
StepKey(args) ==
    CASE args[1] = s_file_arg -> "transfer"
      [] args[2] = s_mkdir -> "create_dir"
      [] args[2] = s_bm -> "install"
      [] args[2] = s_rm -> "cleanup"
      [] args[3] = s_force_stop -> "stop"
      [] OTHER -> "start"

\* the steps of the body that completed: the commands it issued, but the
\* one that raised
Completed(j) ==
    LET body == IssuedByBody(j)
        n == IF j.raised # NoExc THEN Len(body) - 1 ELSE Len(body)
    IN {StepKey(body[i]) : i \in 1..n}

\* the install step was executed and returned returncode 0
InstallReturnedZero(j) ==
    /\ "install" \in Completed(j)
    /\ j.steps["install"].d.returncode = 0

\* the call has returned, and what it returned
Payload == job.result

\* C24 as stated: success is true if and only if the install step was
\* executed and returned 0; a missing HAP file or a step that raises gives
\* success = false with an error field; steps holds the completed steps.
C24_SuccessIffInstalled ==
    (IsInstall /\ job.pc = "done") =>
        /\ Payload.success <=> InstallReturnedZero(job)
        /\ (~os_path_isfile(fs, job.hap_path) \/ job.raised # NoExc) =>
              /\ ~Payload.success
              /\ "error" \in DOMAIN Payload
        /\ DOMAIN Payload.steps = Completed(job)

\* C24: hdc_install_app always returns a payload; success is true if and
\* only if no step raised and the install step was executed and returned
\* 0, whatever the returncodes of the stop, mkdir, transfer, cleanup and
\* start steps; a missing HAP file or a step that raises gives success =
\* false with an error field; steps holds exactly the steps of the body
\* that completed, with what they returned.
C24_SuccessIffInstalledNoRaise ==
    (IsInstall /\ job.pc = "done") =>
        /\ Payload.success <=>
              (job.raised = NoExc /\ InstallReturnedZero(job))
        /\ (~os_path_isfile(fs, job.hap_path) \/ job.raised # NoExc) =>
              /\ ~Payload.success
              /\ "error" \in DOMAIN Payload
        /\ (os_path_isfile(fs, job.hap_path) /\ job.raised = NoExc) =>
              "error" \notin DOMAIN Payload
        /\ DOMAIN Payload.steps = Completed(job)
        /\ Payload.steps = job.steps

C24_Witness ==
    /\ IsInstall
    /\ job.pc = "done"
    /\ job.raised = NoExc
    /\ Payload.success
    /\ DOMAIN Payload.steps =
          {"stop", "create_dir", "transfer", "install", "cleanup", "start"}
    /\ Payload.steps["stop"].d.returncode = 3
    /\ Payload.steps["create_dir"].d.returncode = 3
    /\ Payload.steps["transfer"].d.timed_out
    /\ Payload.steps["install"].d.returncode = 0
    /\ Payload.steps["cleanup"].d.returncode = 3
    /\ Payload.steps["start"].d.returncode = -1

\* a call of hdc_screenshot is under way or has returned
IsScreenshot == job # NoJob /\ job.name = "hdc_screenshot"

\* marker occurs in text, whatever the case of the letters of text
HasMarker(text, marker) == Contains(lower(text), marker)

\* the snapshot step returned with returncode 0 and without "error:" in
\* its stdout
SnapshotSucceeded ==
    /\ job.snapshot_result # NotADict
    /\ job.snapshot_result.d.returncode = 0
    /\ ~HasMarker(job.snapshot_result.d.stdout, <<"e", "r", "r", "o", "r", ":">>)

\* the transfer step returned with returncode 0 and without "[fail]" or
\* "error" in its stdout
RecvSucceeded ==
    /\ job.recv_result # NotADict
    /\ job.recv_result.d.returncode = 0
    /\ ~HasMarker(job.recv_result.d.stdout, <<"[", "f", "a", "i", "l", "]">>)
    /\ ~HasMarker(job.recv_result.d.stdout, <<"e", "r", "r", "o", "r">>)

\* the positions at which the call issued `shell rm <device_temp_path>`
RemoveAt ==
    {i \in 1..Len(job.issued) :
        job.issued[i] = <<s_shell, s_rm, job.device_temp_path>>}

\* C25: when hdc_screenshot has returned and its snapshot step had succeeded
\* (returncode 0 and no "error:" in its stdout), a `shell rm` of the call's
\* own device_temp_path was attempted after the snapshot, whether the
\* transfer succeeded, returned non-zero, printed a failure marker, or a
\* step raised; and success = true is returned only when the snapshot and
\* the transfer both returned returncode 0 without failure markers.
C25_ScreenshotCleanup ==
    (IsScreenshot /\ job.pc = "done") =>
        /\ SnapshotSucceeded =>
              /\ RemoveAt # {}
              /\ \A i \in RemoveAt : i > 2
              /\ job.issued[1] =
                    <<s_shell, s_snapshot_display, s_f, job.device_temp_path>>
              /\ job.issued[2] =
                    <<s_file_arg, s_recv, job.device_temp_path, job.local_path>>
        /\ job.result.success =>
              /\ SnapshotSucceeded
              /\ RecvSucceeded
              /\ job.raised = NoExc

C25_Witness ==
    /\ IsScreenshot
    /\ job.pc = "done"
    /\ SnapshotSucceeded
    /\ job.recv_result # NotADict
    /\ job.recv_result.d.returncode = 0
    /\ job.recv_result.d.stdout = <<"[", "F", "a", "i", "l", "]", "x">>
    /\ job.raised = NoExc
    /\ ~job.result.success
    /\ job.issued = <<SnapshotArgs(job.device_temp_path),
                      RecvArgs(job.device_temp_path, job.local_path),
                      RemoveArgs(job.device_temp_path)>>
=============================================================================
